---------------------------- MODULE Spec2Model ----------------------------
(* A model of the PDF coordinate-indexing, redaction and annotation engine  *)
(* of resumeLib: services/anonymizer_service.py and services/pdf_service.py *)
(*                                                                          *)
(* Units.  Lengths and font sizes are whole points.  Rectangle heights are  *)
(* multiples of 4 points, so that 0.75 x height is a whole number; a        *)
(* confidence is held in hundredths (1.0 is 100, 0.85 is 85).               *)
(*                                                                          *)
(* Text.  A page's text is a sequence of lines, a line a sequence of tokens *)
(* separated by one blank.  A token is one of the literal strings of        *)
(* Tokens; what each regular expression of _detect_pii_regex matches in a   *)
(* token, and where a literal occurs in a token, is tabulated below from    *)
(* the expressions of the source.  A string whose whitespace matters        *)
(* (replacement_text, comment) is a sequence of one-character strings.      *)
EXTENDS Integers, Sequences, FiniteSets, TLC

VARIABLES
    call,      \* the invocation: the operation's name and its arguments
    llm,       \* what the entity-extraction collaborator answers, per page,
               \* and the run's stream of uuid4 values
    pc,        \* "start" before the operation has run, "done" after it returned
    result,    \* the dictionary the operation returned
    raised,    \* the exception that left the operation, "none" when it returned
    handle,    \* the call's document handle: "none", "open" or "closed"
    trace,     \* per list item the operation reached, the library calls made for it
    threads    \* the frames of the calls in progress at the same time

vars == <<call, llm, pc, result, raised, handle, trace, threads>>

-----------------------------------------------------------------------------
(* Bounds of the model *)

MaxTokens == 3      \* tokens, line breaks and page breaks of a generated document
MaxEntities == 2    \* entity strings in one collaborator response
MaxItems == 2       \* replacement items of one call
MaxThreads == 2     \* calls in progress at the same time

-----------------------------------------------------------------------------
(* Sequences *)

RECURSIVE FlatMap(_, _)
FlatMap(F(_), s) ==
    IF s = <<>> THEN <<>> ELSE F(Head(s)) \o FlatMap(F, Tail(s))

RECURSIVE SeqsUpTo(_, _)
Extend(shorter, S) == shorter \cup {Append(s, x) : s \in shorter, x \in S}

SeqsUpTo(S, n) == IF n = 0 THEN {<<>>} ELSE Extend(SeqsUpTo(S, n - 1), S)

Range(s) == {s[i] : i \in DOMAIN s}

-----------------------------------------------------------------------------
(* Rectangles: fitz.Rect(x0, y0, x1, y1) *)

Rect(x0, y0, x1, y1) == [x0 |-> x0, y0 |-> y0, x1 |-> x1, y1 |-> y1]

RectOfBBox(b) == Rect(b.x, b.y, b.x + b.width, b.y + b.height)

BBoxOfRect(r) ==
    [x |-> r.x0, y |-> r.y0, width |-> r.x1 - r.x0, height |-> r.y1 - r.y0]

IsEmptyRect(r) == r.x0 >= r.x1 \/ r.y0 >= r.y1

Intersects(a, b) ==
    /\ ~IsEmptyRect(a)
    /\ ~IsEmptyRect(b)
    /\ (IF a.x0 > b.x0 THEN a.x0 ELSE b.x0) < (IF a.x1 < b.x1 THEN a.x1 ELSE b.x1)
    /\ (IF a.y0 > b.y0 THEN a.y0 ELSE b.y0) < (IF a.y1 < b.y1 THEN a.y1 ELSE b.y1)

-----------------------------------------------------------------------------
(* Page text *)

Tokens ==
    { "jane@example.com", "555-123-4567", "(555) 123-4567", "+1 555-123-4567",
      "linkedin.com/in/jane", "github.com/jane", "https://jane.dev",
      "https://github.com/jane", "Jane Doe" }

\* A URL that carries a second URL in its query.
NestedUrl == "https://github.com/r?u=http://jane.dev"

LineBreak == "<LB>"
PageBreak == "<PB>"
Damaged == "<DMG>"    \* a page whose content stream cannot be read
Landscape == "<LS>"   \* a page in landscape orientation
Marks == {Damaged, Landscape}

TokLen(t) ==
    CASE t = "jane@example.com" -> 16
      [] t = "555-123-4567" -> 12
      [] t = "(555) 123-4567" -> 14
      [] t = "+1 555-123-4567" -> 15
      [] t = "linkedin.com/in/jane" -> 20
      [] t = "github.com/jane" -> 15
      [] t = "https://jane.dev" -> 16
      [] t = "https://github.com/jane" -> 23
      [] t = "Jane Doe" -> 8
      [] t = NestedUrl -> 38
      [] t = "github.com/r" -> 12
      [] t = "http://jane.dev" -> 15
      [] OTHER -> 10

\* The span that carries a token: its font, size, colour and flags.
TokStyle(t) ==
    CASE t = "Jane Doe" ->
           [font_name |-> "TimesNewRoman-Bold", font_size |-> 24, color |-> 0, flags |-> 16]
      [] t \in {"https://jane.dev", "https://github.com/jane"} ->
           [font_name |-> "Consolas", font_size |-> 9, color |-> 255, flags |-> 0]
      [] OTHER ->
           [font_name |-> "Calibri", font_size |-> 11, color |-> 0, flags |-> 0]


\* re.finditer(pattern, token, re.IGNORECASE) for the seven expressions of
\* _detect_pii_regex, in the order the code applies them: the matched
\* substrings of one token, in match order.
\* Mutant: the phone expressions in the reverse order.
PatternsPhonesReversed ==
    << [name |-> "email",    type |-> "email"],
       [name |-> "phone3",   type |-> "phone"],
       [name |-> "phone2",   type |-> "phone"],
       [name |-> "phone1",   type |-> "phone"],
       [name |-> "linkedin", type |-> "linkedin"],
       [name |-> "github",   type |-> "github"],
       [name |-> "website",  type |-> "website"] >>

Patterns ==
    << [name |-> "email",    type |-> "email"],
       [name |-> "phone1",   type |-> "phone"],
       [name |-> "phone2",   type |-> "phone"],
       [name |-> "phone3",   type |-> "phone"],
       [name |-> "linkedin", type |-> "linkedin"],
       [name |-> "github",   type |-> "github"],
       [name |-> "website",  type |-> "website"] >>

TokenMatches(pattern, t) ==
    CASE pattern = "email"    /\ t = "jane@example.com"        -> << "jane@example.com" >>
      [] pattern = "phone1"   /\ t = "555-123-4567"            -> << "555-123-4567" >>
      [] pattern = "phone1"   /\ t = "+1 555-123-4567"         -> << "555-123-4567" >>
      [] pattern = "phone2"   /\ t = "(555) 123-4567"          -> << "(555) 123-4567" >>
      [] pattern = "phone3"   /\ t = "+1 555-123-4567"         -> << "+1 555-123-4567" >>
      [] pattern = "linkedin" /\ t = "linkedin.com/in/jane"    -> << "linkedin.com/in/jane" >>
      [] pattern = "github"   /\ t = "github.com/jane"         -> << "github.com/jane" >>
      [] pattern = "github"   /\ t = "https://github.com/jane" -> << "github.com/jane" >>
      [] pattern = "website"  /\ t = "https://jane.dev"        -> << "https://jane.dev" >>
      [] pattern = "github"   /\ t = NestedUrl                 -> << "github.com/r" >>
      [] pattern = "website"  /\ t = NestedUrl                 -> << "http://jane.dev" >>
      [] OTHER -> << >>

\* The negative lookahead (?!.*(?:linkedin|github)) of the website expression
\* looks to the end of the line: "." does not match a line break.
MentionsLinkedinOrGithub(t) ==
    t \in {"linkedin.com/in/jane", "github.com/jane", "https://github.com/jane",
           NestedUrl, "github.com/r"}

\* Where a literal occurs in a token (case-insensitively): the offsets, in
\* characters, of its occurrences.
Occurrences(needle, t) ==
    CASE needle = t -> << 0 >>
      [] needle = "555-123-4567" /\ t = "+1 555-123-4567" -> << 3 >>
      [] needle = "github.com/jane" /\ t = "https://github.com/jane" -> << 8 >>
      [] needle = "github.com/r" /\ t = NestedUrl -> << 8 >>
      [] needle = "http://jane.dev" /\ t = NestedUrl -> << 23 >>
      [] OTHER -> << >>

-----------------------------------------------------------------------------
(* Documents *)

\* A text object of a page: the token it shows, the line it stands on, the
\* column (in characters) it starts at, and the indexes (from 0) of those of
\* its characters that a redaction has removed.  A character is 6 points wide and
\* a line 12 points high.
SpanRect(sp) ==
    Rect(6 * sp.col, 12 * sp.line, 6 * (sp.col + TokLen(sp.text)), 12 * sp.line + 12)

\* The index of the first sep in s.
FirstIndex(s, sep) ==
    CHOOSE i \in DOMAIN s : s[i] = sep /\ \A j \in 1..(i - 1) : s[j] # sep

RECURSIVE SplitOn(_, _)
SplitAt(s, sep, k) ==
    << SubSeq(s, 1, k - 1) >> \o SplitOn(SubSeq(s, k + 1, Len(s)), sep)

SplitOn(s, sep) ==
    IF \A i \in DOMAIN s : s[i] # sep THEN << s >>
    ELSE SplitAt(s, sep, FirstIndex(s, sep))

RECURSIVE LineSpans(_, _, _)
LineSpans(toks, line, col) ==
    IF toks = << >> THEN << >>
    ELSE << [text |-> Head(toks), line |-> line, col |-> col, gone |-> {}] >>
         \o LineSpans(Tail(toks), line, col + TokLen(Head(toks)) + 1)

RECURSIVE PageSpans(_, _)
PageSpans(lines, line) ==
    IF lines = << >> THEN << >>
    ELSE LineSpans(Head(lines), line, 0) \o PageSpans(Tail(lines), line + 1)

\* A page: its size, its text objects in reading order, and what a mutation
\* has added to it (drawings, inserted text, annotations), in order.
MakePage(symbols) ==
    [ width   |-> IF \E i \in DOMAIN symbols : symbols[i] = Landscape
                    THEN 792 ELSE 612,
      height  |-> IF \E i \in DOMAIN symbols : symbols[i] = Landscape
                    THEN 612 ELSE 792,
      damaged |-> (\E i \in DOMAIN symbols : symbols[i] = Damaged),
      spans   |-> PageSpans(SplitOn(SelectSeq(symbols, LAMBDA t : t \notin Marks),
                                    LineBreak), 0),
      added   |-> << >> ]

\* The document a stream of symbols lays out: pages at the page breaks,
\* lines at the line breaks.
PagesOf(parts) == [i \in DOMAIN parts |-> MakePage(parts[i])]

MakeDoc(symbols) == [valid |-> TRUE, pages |-> PagesOf(SplitOn(symbols, PageBreak))]

\* Bytes (or a file) that fitz.open rejects.
CorruptFile == [valid |-> FALSE, pages |-> << >>]

\* page.get_text(): the lines of the page, each the tokens of its spans.
LineCount(page) ==
    IF page.spans = << >> THEN 0 ELSE 1 + page.spans[Len(page.spans)].line

LinesOf(page) ==
    [l \in 1..LineCount(page) |-> SelectSeq(page.spans, LAMBDA sp : sp.line = l - 1)]

\* page.search_for(needle): one rectangle per occurrence, in reading order.
OccurrenceRects(r, offs, n) ==
    [i \in DOMAIN offs |-> Rect(r.x0 + 6 * offs[i], r.y0, r.x0 + 6 * (offs[i] + n), r.y1)]

SearchFor(page, needle) ==
    FlatMap(LAMBDA sp : OccurrenceRects(SpanRect(sp), Occurrences(needle, sp.text),
                                        TokLen(needle)),
            page.spans)

-----------------------------------------------------------------------------
(* Style Extractor: AnonymizerService._extract_text_with_style *)

\* The spans whose rectangle intersects rect, in block, line and span order.
SpansAt(page, rect) ==
    SelectSeq(page.spans, LAMBDA sp : Intersects(rect, SpanRect(sp)))

\* Mutant: the fallback size is clamped to [6, 18] as the estimate of the
\* replacement engine is.
StyleOfClamped(hits, bbox) ==
    IF hits # << >>
    THEN TokStyle(hits[1].text)
    ELSE [font_name |-> "helv",
          font_size |-> IF (bbox.height * 3) \div 4 < 6 THEN 6
                        ELSE IF (bbox.height * 3) \div 4 > 18 THEN 18
                        ELSE (bbox.height * 3) \div 4,
          color |-> 0, flags |-> 0]

StyleOf(hits, bbox) ==
    IF hits # << >>
    THEN TokStyle(hits[1].text)
    ELSE [font_name |-> "helv", font_size |-> (bbox.height * 3) \div 4,
          color |-> 0, flags |-> 0]

\* page.get_text("dict", flags=11) and the search through it: raises on a
\* page whose content cannot be read.
StyleLookup(page, rect) ==
    IF page.damaged THEN [exc |-> "RuntimeError", hits |-> << >>]
    ELSE [exc |-> "none", hits |-> SpansAt(page, rect)]

\* except Exception: pass
ExceptPass(r) == IF r.exc # "none" THEN [exc |-> "none", hits |-> << >>] ELSE r

ExtractTextWithStyle(page, bbox) ==
    StyleOf(ExceptPass(StyleLookup(page, RectOfBBox(bbox))).hits, bbox)

-----------------------------------------------------------------------------
(* Regex Detector: AnonymizerService._detect_pii_regex, _find_pattern_coords *)

\* The loop over the rectangles search_for returned: one detection each.
Detection(page, bbox, text, pii_type, page_num, confidence) ==
    [ type       |-> pii_type,
      text       |-> text,
      page       |-> page_num,
      bbox       |-> bbox,
      confidence |-> confidence,
      style      |-> ExtractTextWithStyle(page, bbox) ]

DetectionsAt(page, rects, text, pii_type, page_num, confidence) ==
    [i \in DOMAIN rects |->
        Detection(page, BBoxOfRect(rects[i]), text, pii_type, page_num, confidence)]

\* re.finditer(pattern, page.get_text(), re.IGNORECASE): the matched
\* substrings of the page text, in text order.
Excluded(pattern, rest) ==
    /\ pattern = "website"
    /\ \E i \in DOMAIN rest : MentionsLinkedinOrGithub(rest[i].text)

RECURSIVE LineMatches(_, _)
LineMatches(pattern, toks) ==
    IF toks = << >> THEN << >>
    ELSE (IF Excluded(pattern, Tail(toks)) THEN << >>
          ELSE TokenMatches(pattern, Head(toks).text))
         \o LineMatches(pattern, Tail(toks))

PageMatches(pattern, page) ==
    FlatMap(LAMBDA line : LineMatches(pattern, line), LinesOf(page))

RegexConfidence == 100

FindPatternCoords(page, pattern, pii_type, page_num) ==
    FlatMap(LAMBDA matched_text :
                DetectionsAt(page, SearchFor(page, matched_text), matched_text,
                             pii_type, page_num, RegexConfidence),
            PageMatches(pattern, page))

DetectPiiRegex(page, page_num) ==
    FlatMap(LAMBDA pat : FindPatternCoords(page, pat.name, pat.type, page_num),
            Patterns)

-----------------------------------------------------------------------------
(* Entity Resolver: AnonymizerService._detect_pii_ai, _find_text_coords *)

Entities == {"Jane Doe", "Ghost Corp"}

Categories ==
    << [key |-> "names",     type |-> "name",    confidence |-> 90],
       [key |-> "companies", type |-> "company", confidence |-> 85],
       [key |-> "schools",   type |-> "school",  confidence |-> 85],
       [key |-> "addresses", type |-> "address", confidence |-> 80] >>

ResponseKeys == {"names", "companies", "schools", "addresses", "notes"}

\* What the collaborator does for one page: the call raises, the content is
\* not JSON, the JSON is not an object, or it is an object.  An object is
\* given by its (key, entity) pairs; a key without a pair is absent from a
\* sparse object and present with an empty list otherwise.
Pairs ==
    [key : {"names"}, entity : Entities]
    \cup [key : ResponseKeys \ {"names"}, entity : {"Jane Doe"}]

Outcomes ==
    { [kind |-> "raise",     pairs |-> << >>, sparse |-> FALSE],
      [kind |-> "badjson",   pairs |-> << >>, sparse |-> FALSE],
      [kind |-> "notobject", pairs |-> << >>, sparse |-> FALSE] }
    \cup
    { [kind |-> "object", pairs |-> ps, sparse |-> sp] :
          ps \in SeqsUpTo(Pairs, MaxEntities), sp \in BOOLEAN }

HasKey(data, key) ==
    \/ ~data.sparse
    \/ \E i \in DOMAIN data.pairs : data.pairs[i].key = key

\* data.get(key, [])
EntitiesOf(ps) == [i \in DOMAIN ps |-> ps[i].entity]

DataGet(data, key) ==
    IF HasKey(data, key)
    THEN EntitiesOf(SelectSeq(data.pairs, LAMBDA pr : pr.key = key))
    ELSE << >>

\* Mutant: the confidence argument is dropped for the parameter's default.
FindTextCoordsDefaultConfidence(page, text, pii_type, page_num, confidence) ==
    DetectionsAt(page, SearchFor(page, text), text, pii_type, page_num, 85)

\* Mutant: an entity that is not found is reported without a place.
FindTextCoordsReportsMiss(page, text, pii_type, page_num, confidence) ==
    IF SearchFor(page, text) = << >>
    THEN << Detection(page, [x |-> 0, y |-> 0, width |-> 0, height |-> 0], text,
                      pii_type, page_num, confidence) >>
    ELSE DetectionsAt(page, SearchFor(page, text), text, pii_type, page_num,
                      confidence)

\* The second search_for (flags=TEXT_PRESERVE_WHITESPACE) sees the same text.
OrSearchAgain(page, text, first) ==
    IF first = << >> THEN SearchFor(page, text) ELSE first

FindTextCoords(page, text, pii_type, page_num, confidence) ==
    DetectionsAt(page, OrSearchAgain(page, text, SearchFor(page, text)), text,
                 pii_type, page_num, confidence)

\* Mutant: the categories are read with data[key], which raises on a
\* missing key.
DetectPiiAiTryStrictKeys(page, page_num, outcome) ==
    CASE outcome.kind = "raise"     -> [exc |-> "APIError", val |-> << >>]
      [] outcome.kind = "badjson"   -> [exc |-> "JSONDecodeError", val |-> << >>]
      [] outcome.kind = "notobject" -> [exc |-> "AttributeError", val |-> << >>]
      [] \E i \in DOMAIN Categories : ~HasKey(outcome, Categories[i].key) ->
           [exc |-> "KeyError", val |-> << >>]
      [] OTHER ->
           [exc |-> "none",
            val |-> FlatMap(LAMBDA cat :
                       FlatMap(LAMBDA e : FindTextCoords(page, e, cat.type, page_num,
                                                         cat.confidence),
                               DataGet(outcome, cat.key)),
                       Categories)]

\* The body of the try block: the exception it ends with, or its detections.
DetectPiiAiTry(page, page_num, outcome) ==
    CASE outcome.kind = "raise"     -> [exc |-> "APIError", val |-> << >>]
      [] outcome.kind = "badjson"   -> [exc |-> "JSONDecodeError", val |-> << >>]
      [] outcome.kind = "notobject" -> [exc |-> "AttributeError", val |-> << >>]
      [] OTHER ->
           [exc |-> "none",
            val |-> FlatMap(LAMBDA cat :
                       FlatMap(LAMBDA e : FindTextCoords(page, e, cat.type, page_num,
                                                         cat.confidence),
                               DataGet(outcome, cat.key)),
                       Categories)]

\* Mutant: the try block without its except clause.
DetectPiiAiNoExcept(page, page_num, outcome) ==
    DetectPiiAiTry(page, page_num, outcome)

\* except Exception: return []
ExceptReturnEmpty(r) ==
    IF r.exc # "none" THEN [exc |-> "none", val |-> << >>] ELSE r

DetectPiiAi(page, page_num, outcome) ==
    ExceptReturnEmpty(DetectPiiAiTry(page, page_num, outcome))

-----------------------------------------------------------------------------
(* AnonymizerService.detect_pii_with_coordinates *)

RaiseOutcome == [kind |-> "raise", pairs |-> << >>, sparse |-> FALSE]
EmptyObject  == [kind |-> "object", pairs |-> << >>, sparse |-> FALSE]

\* The collaborator's answer for page p (0-indexed) under oracle o.
OutcomeFor(o, p) == IF p = o.page THEN o.outcome ELSE o.rest

\* The loop over the pages from page n (1-indexed) on, acc being the
\* detections so far: the exception that ends it, or all the detections.
RECURSIVE DetectPages(_, _, _, _)
AfterPage(doc, o, n, acc, ai) ==
    IF ai.exc # "none"
    THEN [exc |-> ai.exc, detections |-> acc]
    ELSE DetectPages(doc, o, n + 1, acc \o ai.val)

\* Mutant: the regex detections of a page are kept only when the
\* collaborator answered with an object.
DetectPageAiGated(doc, o, n, acc, page) ==
    IF page.damaged
    THEN [exc |-> "RuntimeError", detections |-> acc]
    ELSE AfterPage(doc, o, n,
                   IF OutcomeFor(o, n - 1).kind = "object"
                   THEN acc \o DetectPiiRegex(page, n - 1) ELSE acc,
                   DetectPiiAi(page, n - 1, OutcomeFor(o, n - 1)))

DetectPage(doc, o, n, acc, page) ==
    IF page.damaged
    THEN [exc |-> "RuntimeError", detections |-> acc]
    ELSE AfterPage(doc, o, n, acc \o DetectPiiRegex(page, n - 1),
                   DetectPiiAi(page, n - 1, OutcomeFor(o, n - 1)))

DetectPages(doc, o, n, acc) ==
    IF n > Len(doc.pages) THEN [exc |-> "none", detections |-> acc]
    ELSE DetectPage(doc, o, n, acc, doc.pages[n])

\* "id": str(uuid.uuid4()), written when a detection is created.  A run
\* draws its values from its own stream; detections are created in the
\* order of the list, so the n-th detection holds the n-th value.
Uuid4(stream, n) == << stream, n >>

WithIds(detections, stream) ==
    [n \in DOMAIN detections |->
        [id |-> Uuid4(stream, n)] @@ detections[n]]

\* Mutant: a failing page ends the loop and what was collected is returned.
AfterDetectLoopPartial(file, o, loop) ==
    IF loop.exc # "none"
    THEN [exc |-> "none", handle |-> "closed",
          ret |-> [ success     |-> FALSE,
                    error       |-> loop.exc,
                    detections  |-> WithIds(loop.detections, o.uuid),
                    total_pages |-> Len(file.pages) ]]
    ELSE [exc |-> "none", handle |-> "closed",
          ret |-> [ success     |-> TRUE,
                    detections  |-> WithIds(loop.detections, o.uuid),
                    total_pages |-> Len(file.pages) ]]

\* The body of the try block: the exception it ends with, the value it
\* returns, and what became of the document handle.
AfterDetectLoop(file, o, loop) ==
    IF loop.exc # "none"
    THEN [exc |-> loop.exc, handle |-> "open", ret |-> << >>]
    ELSE [exc |-> "none", handle |-> "closed",
          ret |-> [ success     |-> TRUE,
                    detections  |-> WithIds(loop.detections, o.uuid),
                    total_pages |-> Len(file.pages) ]]

DetectTry(file, o) ==
    IF ~file.valid
    THEN [exc |-> "FileDataError", handle |-> "none", ret |-> << >>]
    ELSE AfterDetectLoop(file, o, DetectPages(file, o, 1, << >>))

\* What the call gives its caller: the dictionary returned, the exception
\* raised past it ("none" when it returned), and the handle.
ExceptDetect(t) ==
    IF t.exc # "none"
    THEN [ raised |-> "none", handle |-> t.handle, trace |-> << >>,
           ret |-> [ success     |-> FALSE,
                     error       |-> t.exc,
                     detections  |-> << >>,
                     total_pages |-> 0 ] ]
    ELSE [raised |-> "none", handle |-> t.handle, trace |-> << >>, ret |-> t.ret]

DetectPiiWithCoordinatesRun(file, o) == ExceptDetect(DetectTry(file, o))

-----------------------------------------------------------------------------
(* Strings as sequences of characters *)

IsSpace(c) == c \in {" ", "\t", "\n"}

\* str.strip()
RECURSIVE StripLeft(_)
StripLeft(s) ==
    IF s # << >> /\ IsSpace(Head(s)) THEN StripLeft(Tail(s)) ELSE s

RECURSIVE StripRight(_)
StripRight(s) ==
    IF s # << >> /\ IsSpace(s[Len(s)]) THEN StripRight(SubSeq(s, 1, Len(s) - 1)) ELSE s

Strip(s) == StripRight(StripLeft(s))

\* str.lower()
LowerChar(c) ==
    CASE c = "A" -> "a"
      [] c = "B" -> "b"
      [] c = "C" -> "c"
      [] c = "D" -> "d"
      [] c = "E" -> "e"
      [] c = "F" -> "f"
      [] c = "G" -> "g"
      [] c = "H" -> "h"
      [] c = "I" -> "i"
      [] c = "J" -> "j"
      [] c = "K" -> "k"
      [] c = "L" -> "l"
      [] c = "M" -> "m"
      [] c = "N" -> "n"
      [] c = "O" -> "o"
      [] c = "P" -> "p"
      [] c = "Q" -> "q"
      [] c = "R" -> "r"
      [] c = "S" -> "s"
      [] c = "T" -> "t"
      [] c = "U" -> "u"
      [] c = "V" -> "v"
      [] c = "W" -> "w"
      [] c = "X" -> "x"
      [] c = "Y" -> "y"
      [] c = "Z" -> "z"
      [] OTHER -> c

Lower(s) == [i \in DOMAIN s |-> LowerChar(s[i])]

\* sub in s
Contains(s, sub) ==
    \E i \in 1..(Len(s) - Len(sub) + 1) : SubSeq(s, i, i + Len(sub) - 1) = sub

-----------------------------------------------------------------------------
(* Font Classifier: AnonymizerService._map_to_builtin_font *)

sans_serif ==
    { <<"a", "r", "i", "a", "l">>,
      <<"h", "e", "l", "v", "e", "t", "i", "c", "a">>,
      <<"c", "a", "l", "i", "b", "r", "i">>,
      <<"v", "e", "r", "d", "a", "n", "a">>,
      <<"t", "a", "h", "o", "m", "a">>,
      <<"s", "e", "g", "o", "e">>,
      <<"s", "a", "n", "s">>,
      <<"g", "i", "l", "l">> }

serif ==
    { <<"t", "i", "m", "e", "s">>,
      <<"g", "e", "o", "r", "g", "i", "a">>,
      <<"g", "a", "r", "a", "m", "o", "n", "d">>,
      <<"p", "a", "l", "a", "t", "i", "n", "o">>,
      <<"b", "a", "s", "k", "e", "r", "v", "i", "l", "l", "e">>,
      <<"c", "a", "m", "b", "r", "i", "a">>,
      <<"s", "e", "r", "i", "f">> }

monospace ==
    { <<"c", "o", "u", "r", "i", "e", "r">>,
      <<"c", "o", "n", "s", "o", "l", "a", "s">>,
      <<"m", "o", "n", "a", "c", "o">>,
      <<"m", "o", "n", "o", "s", "p", "a", "c", "e">>,
      <<"m", "o", "n", "o">> }

AnyIn(keywords, font_lower) == \E k \in keywords : Contains(font_lower, k)

\* Mutant: the serif table is looked at first.
ClassifyLowerSerifFirst(font_lower) ==
    IF AnyIn(serif, font_lower) THEN "tiro"
    ELSE IF AnyIn(sans_serif, font_lower) THEN "helv"
    ELSE IF AnyIn(monospace, font_lower) THEN "cour"
    ELSE "helv"

ClassifyLower(font_lower) ==
    IF AnyIn(sans_serif, font_lower) THEN "helv"
    ELSE IF AnyIn(serif, font_lower) THEN "tiro"
    ELSE IF AnyIn(monospace, font_lower) THEN "cour"
    ELSE "helv"

\* Mutant: the name is matched as given, not lowered.
MapToBuiltinFontAsGiven(font_name) == ClassifyLower(font_name)

MapToBuiltinFont(font_name) == ClassifyLower(Lower(font_name))

-----------------------------------------------------------------------------
(* Page content added by a mutation *)

\* Colours: components over a denominator, (r/of, g/of, b/of).
Color(r, g, b, of) == [r |-> r, g |-> g, b |-> b, of |-> of]
White == Color(1, 1, 1, 1)
Black == Color(0, 0, 0, 1)
NoColor == Color(0, 0, 0, 0)

\* One object drawn on a page.  kind names the library call that made it;
\* rect is its rectangle (the text box, the drawn rectangle); at is the
\* anchor point of a point-anchored text; gone holds the indexes (from 0) of
\* the characters of text that a redaction has removed.
Drawn(kind, rect, at, text, fontsize, fontname, color, fill) ==
    [ kind |-> kind, rect |-> rect, at |-> at, text |-> text,
      fontsize |-> fontsize, fontname |-> fontname,
      color |-> color, fill |-> fill, gone |-> {} ]

Point(x, y) == [x |-> x, y |-> y]

Add(page, obj) == [page EXCEPT !.added = Append(@, obj)]

WithPage(doc, n, page) == [doc EXCEPT !.pages[n] = page]

\* The layout of inserted text: a character is half the font size wide and
\* a line one font size high.
CharWidth(fontsize) == fontsize \div 2

\* fitz.get_text_length: the bold face is three fifths of the font size a
\* character.
GetTextLength(text, fontname, fontsize) ==
    IF fontname = "hebo" THEN Len(text) * ((fontsize * 3) \div 5)
    ELSE Len(text) * CharWidth(fontsize)

\* insert_textbox: the characters a line of the box takes (at least one).
PerLine(rect, fontsize) ==
    IF (rect.x1 - rect.x0) \div CharWidth(fontsize) < 1 THEN 1
    ELSE (rect.x1 - rect.x0) \div CharWidth(fontsize)

LinesNeeded(n, per_line) == (n + per_line - 1) \div per_line

\* What insert_textbox returns: the unused height of the box when the text
\* fits (zero or more, and the text is written), the deficit (negative, and
\* nothing is written) when it does not.
TextboxResult(rect, text, fontsize) ==
    (rect.y1 - rect.y0) - fontsize * LinesNeeded(Len(text), PerLine(rect, fontsize))

\* The rectangle of character k (from 0) of a drawn text, and of a span.
CharRectIn(o, k, per_line, w) ==
    Rect(o.rect.x0 + (k % per_line) * w,
         o.rect.y0 + (k \div per_line) * o.fontsize,
         o.rect.x0 + (k % per_line) * w + w,
         o.rect.y0 + (k \div per_line) * o.fontsize + o.fontsize)

DrawnCharRect(o, k) ==
    IF o.kind = "insert_textbox"
    THEN CharRectIn(o, k, PerLine(o.rect, o.fontsize), CharWidth(o.fontsize))
    ELSE Rect(o.at.x + GetTextLength(SubSeq(o.text, 1, k), o.fontname, o.fontsize),
              o.at.y - o.fontsize,
              o.at.x + GetTextLength(SubSeq(o.text, 1, k + 1), o.fontname, o.fontsize),
              o.at.y)

SpanCharRect(sp, k) ==
    Rect(6 * (sp.col + k), 12 * sp.line, 6 * (sp.col + k + 1), 12 * sp.line + 12)

IsText(o) == o.kind \in {"insert_textbox", "insert_text"}

\* page.apply_redactions(): every character that a redaction annotation of
\* the page overlaps is removed from the content, and each annotation is
\* replaced by its fill.
RedactRects(page) ==
    {page.added[i].rect : i \in {j \in DOMAIN page.added :
                                     page.added[j].kind = "redact_annot"}}

Hit(r, rects) == \E q \in rects : Intersects(r, q)

RedactSpan(sp, rects) ==
    [sp EXCEPT !.gone = @ \cup {k \in 0..(TokLen(sp.text) - 1) :
                                    Hit(SpanCharRect(sp, k), rects)}]

RedactDrawn(o, rects) ==
    IF o.kind = "redact_annot" THEN [o EXCEPT !.kind = "redact_fill"]
    ELSE IF IsText(o)
    THEN [o EXCEPT !.gone = @ \cup {k \in 0..(Len(o.text) - 1) :
                                        Hit(DrawnCharRect(o, k), rects)}]
    ELSE o

RedactWith(page, rects) ==
    [page EXCEPT !.spans = [i \in DOMAIN @ |-> RedactSpan(@[i], rects)],
                 !.added = [i \in DOMAIN @ |-> RedactDrawn(@[i], rects)]]

ApplyRedactions(page) == RedactWith(page, RedactRects(page))

\* page.get_text(clip=rect): the characters still in the content whose
\* rectangle overlaps rect, as (object, character index) pairs.
SpanCharsIn(page, rect) ==
    UNION { { <<"span", i, k>> :
                k \in {c \in 0..(TokLen(page.spans[i].text) - 1) :
                          /\ c \notin page.spans[i].gone
                          /\ Intersects(SpanCharRect(page.spans[i], c), rect)} } :
            i \in DOMAIN page.spans }

DrawnCharsIn(page, rect) ==
    UNION { { <<"added", i, k>> :
                k \in {c \in 0..(Len(page.added[i].text) - 1) :
                          /\ IsText(page.added[i])
                          /\ c \notin page.added[i].gone
                          /\ Intersects(DrawnCharRect(page.added[i], c), rect)} } :
            i \in DOMAIN page.added }

TextIn(page, rect) == SpanCharsIn(page, rect) \cup DrawnCharsIn(page, rect)

-----------------------------------------------------------------------------
(* Redaction / Replacement Engine: AnonymizerService.generate_anonymized_pdf *)

min_size == 6
max_size == 18

Min(a, b) == IF a < b THEN a ELSE b
Max(a, b) == IF a > b THEN a ELSE b

\* AnonymizerService._estimate_font_size
EstimateFontSize(rect) ==
    Max(min_size, Min(((rect.y1 - rect.y0) * 3) \div 4, max_size))

\* Mutant: the estimate without its clamp.
FontSizeUnclamped(style, rect) ==
    IF style.has_font_size THEN style.font_size
    ELSE ((rect.y1 - rect.y0) * 3) \div 4

\* style.get("font_size", self._estimate_font_size(rect))
FontSize(style, rect) ==
    IF style.has_font_size THEN style.font_size ELSE EstimateFontSize(rect)

\* The packed colour integer as an RGB triple over 255.
ColorRGB(color_int) ==
    Color((color_int \div 65536) % 256, (color_int \div 256) % 256,
          color_int % 256, 255)

\* doc[page_num]: an index from the page count on raises; a negative one
\* counts from the end.  The page's place in doc.pages (from 1).
PageAt(doc, page_num) == (page_num % Len(doc.pages)) + 1

\* The fallback: page.insert_text at (x0, y0 + 0.75 x height) inside
\* try/except pass; text_fails says that the library raises there.
InsertTextFallback(page, rect, text, font_size, font_name, color_rgb, text_fails) ==
    IF text_fails THEN page
    ELSE Add(page, Drawn("insert_text", rect,
                         Point(rect.x0, rect.y0 + ((rect.y1 - rect.y0) * 3) \div 4),
                         text, font_size, font_name, color_rgb, NoColor))

\* After page.insert_textbox returned result.
AfterTextbox(page, rect, text, font_size, font_name, color_rgb, text_fails, res) ==
    IF res <= 0
    THEN [ exc |-> "none",
           calls |-> << "draw_rect", "insert_textbox", "insert_text" >>,
           page |-> InsertTextFallback(page, rect, text, font_size, font_name,
                                       color_rgb, text_fails) ]
    ELSE [ exc |-> "none",
           calls |-> << "draw_rect", "insert_textbox" >>,
           page |-> page ]

\* page.insert_textbox: raises on an empty box; writes the text when it fits.
InsertTextbox(page, rect, text, font_size, font_name, color_rgb, res) ==
    IF res >= 0
    THEN Add(page, Drawn("insert_textbox", rect, Point(rect.x0, rect.y0), text,
                         font_size, font_name, color_rgb, NoColor))
    ELSE page

StyledText(page, rect, text, font_size, font_name, color_rgb, text_fails) ==
    IF IsEmptyRect(rect)
    THEN [ exc |-> "ValueError", calls |-> << "draw_rect", "insert_textbox" >>,
           page |-> page ]
    ELSE AfterTextbox(InsertTextbox(page, rect, text, font_size, font_name, color_rgb,
                                    TextboxResult(rect, text, font_size)),
                      rect, text, font_size, font_name, color_rgb, text_fails,
                      TextboxResult(rect, text, font_size))

\* Mutant: the original text is removed by a white redaction before the
\* replacement text is written.
StyledReinsertRedacts(page, rect, text, style, text_fails) ==
    StyledText(ApplyRedactions(
                   Add(page, Drawn("redact_annot", rect, Point(rect.x0, rect.y0),
                                   << >>, 0, "", NoColor, White))),
               rect, text, FontSize(style, rect),
               MapToBuiltinFont(Lower(style.font_name)),
               ColorRGB(style.color), text_fails)

\* The branch of a non-empty replacement text.
StyledReinsert(page, rect, text, style, text_fails) ==
    StyledText(Add(page, Drawn("draw_rect", rect, Point(rect.x0, rect.y0), << >>,
                               0, "", White, White)),
               rect, text, FontSize(style, rect),
               MapToBuiltinFont(Lower(style.font_name)),
               ColorRGB(style.color), text_fails)

\* Mutant: a rectangle already redacted is refused.
HardRedactOnce(page, rect) ==
    IF \/ IsEmptyRect(rect)
       \/ \E i \in DOMAIN page.added :
              page.added[i].kind = "redact_fill" /\ page.added[i].rect = rect
    THEN [exc |-> "ValueError", calls |-> << "add_redact_annot" >>, page |-> page]
    ELSE [ exc |-> "none",
           calls |-> << "add_redact_annot", "apply_redactions" >>,
           page |-> ApplyRedactions(
                        Add(page, Drawn("redact_annot", rect, Point(rect.x0, rect.y0),
                                        << >>, 0, "", NoColor, Black))) ]

\* Mutant: the annotation is added and never applied.
HardRedactNotApplied(page, rect) ==
    [ exc |-> "none", calls |-> << "add_redact_annot", "apply_redactions" >>,
      page |-> Add(page, Drawn("redact_annot", rect, Point(rect.x0, rect.y0),
                               << >>, 0, "", NoColor, Black)) ]

\* The branch of an empty replacement text: page.add_redact_annot raises on
\* an empty rectangle.
HardRedact(page, rect) ==
    IF IsEmptyRect(rect)
    THEN [exc |-> "ValueError", calls |-> << "add_redact_annot" >>, page |-> page]
    ELSE [ exc |-> "none",
           calls |-> << "add_redact_annot", "apply_redactions" >>,
           page |-> ApplyRedactions(
                        Add(page, Drawn("redact_annot", rect, Point(rect.x0, rect.y0),
                                        << >>, 0, "", NoColor, Black))) ]

\* Mutant: the branch is chosen on the text as given, not stripped.
BranchUnstripped(page, rect, replacement, text_fails) ==
    IF replacement.replacement_text # << >>
    THEN StyledReinsert(page, rect, Strip(replacement.replacement_text),
                        replacement.style, text_fails)
    ELSE HardRedact(page, rect)

\* if replacement_text: ... else: ...
Branch(page, rect, replacement, text_fails) ==
    IF Strip(replacement.replacement_text) # << >>
    THEN StyledReinsert(page, rect, Strip(replacement.replacement_text),
                        replacement.style, text_fails)
    ELSE HardRedact(page, rect)

\* One pass of the loop body: the exception it raises, the library calls it
\* made, and the document after it.
PutPage(doc, n, done) ==
    [exc |-> done.exc, calls |-> done.calls, doc |-> WithPage(doc, n, done.page)]

ApplyReplacement(doc, replacement, text_fails) ==
    IF replacement.page >= Len(doc.pages)
    THEN [exc |-> "IndexError", calls |-> << >>, doc |-> doc]
    ELSE PutPage(doc, PageAt(doc, replacement.page),
                 Branch(doc.pages[PageAt(doc, replacement.page)],
                        RectOfBBox(replacement.bbox), replacement, text_fails))

\* The loop over the replacements from item i on.
RECURSIVE ApplyReplacements(_, _, _, _, _)
AfterReplacement(doc, replacements, text_fails, i, tr, step) ==
    IF step.exc # "none"
    THEN [exc |-> step.exc, doc |-> step.doc, trace |-> Append(tr, step.calls)]
    ELSE ApplyReplacements(step.doc, replacements, text_fails, i + 1,
                           Append(tr, step.calls))

ApplyReplacements(doc, replacements, text_fails, i, tr) ==
    IF i > Len(replacements) THEN [exc |-> "none", doc |-> doc, trace |-> tr]
    ELSE AfterReplacement(doc, replacements, text_fails, i, tr,
                          ApplyReplacement(doc, replacements[i], text_fails))

\* Mutant: the document is saved and returned whatever the loop raised.
AfterReplacementLoopSaves(loop) ==
    [ exc |-> "none", handle |-> "closed", trace |-> loop.trace,
      ret |-> [success |-> TRUE, pdf_bytes |-> loop.doc] ]

\* The body of the try block.
AfterReplacementLoop(loop) ==
    IF loop.exc # "none"
    THEN [exc |-> loop.exc, handle |-> "open", trace |-> loop.trace, ret |-> << >>]
    ELSE [ exc |-> "none", handle |-> "closed", trace |-> loop.trace,
           ret |-> [success |-> TRUE, pdf_bytes |-> loop.doc] ]

AnonymizeTry(pdf_bytes, replacements, text_fails) ==
    IF ~pdf_bytes.valid
    THEN [exc |-> "FileDataError", handle |-> "none", trace |-> << >>, ret |-> << >>]
    ELSE AfterReplacementLoop(
             ApplyReplacements(pdf_bytes, replacements, text_fails, 1, << >>))

\* Mutant: the exception goes on to the caller.
ExceptReraise(t) ==
    [raised |-> t.exc, handle |-> t.handle, trace |-> t.trace, ret |-> t.ret]

\* except Exception as e: return {"success": False, "error": str(e)}
ExceptReturnError(t) ==
    IF t.exc # "none"
    THEN [ raised |-> "none", handle |-> t.handle, trace |-> t.trace,
           ret |-> [success |-> FALSE, error |-> t.exc] ]
    ELSE [raised |-> "none", handle |-> t.handle, trace |-> t.trace, ret |-> t.ret]

GenerateAnonymizedPdfRun(pdf_bytes, replacements, text_fails) ==
    ExceptReturnError(AnonymizeTry(pdf_bytes, replacements, text_fails))

-----------------------------------------------------------------------------
(* Annotation Burner: PDFService *)

Yellow == Color(1, 1, 0, 1)
Red == Color(1, 0, 0, 1)
LightYellow == Color(10, 10, 8, 10)
Gray == Color(7, 7, 7, 10)

font_size == 10
margin_bottom == 20

PageRect(page) == Rect(0, 0, page.width, page.height)

\* One pass of _add_watermark's loop: the stamp on one page.
Stamp(page, watermark_text) ==
    Add(page, Drawn("insert_text", PageRect(page),
                    Point((page.width
                             - GetTextLength(watermark_text, "hebo", font_size)) \div 2,
                          page.height - margin_bottom),
                    watermark_text, font_size, "hebo", Gray, NoColor))

\* Mutant: only the first page is stamped.
AddWatermarkFirstPage(doc, watermark_text, text_fails) ==
    IF text_fails THEN [exc |-> "RuntimeError", doc |-> doc]
    ELSE [exc |-> "none", doc |-> WithPage(doc, 1, Stamp(doc.pages[1], watermark_text))]

\* _add_watermark: every page is stamped; text_fails says that the library
\* raises in page.insert_text.
AddWatermark(doc, watermark_text, text_fails) ==
    IF text_fails THEN [exc |-> "RuntimeError", doc |-> doc]
    ELSE [ exc |-> "none",
           doc |-> [doc EXCEPT !.pages =
                        [n \in DOMAIN @ |-> Stamp(@[n], watermark_text)]] ]

\* Draw based on annotation type.
WithShape(page, rect, annot_type) ==
    IF annot_type = "highlight"
    THEN Add(page, Drawn("add_highlight_annot", rect, Point(rect.x0, rect.y0),
                         << >>, 0, "", Yellow, NoColor))
    ELSE IF annot_type \in {"area", "drawing"}
    THEN Add(page, Drawn("draw_rect", rect, Point(rect.x0, rect.y0),
                         << >>, 0, "", Red, NoColor))
    ELSE page

\* The callout: 30 points above the annotation, 400 wide, 25 high.
CommentRect(rect) == Rect(rect.x0, rect.y0 - 30, rect.x0 + 400, rect.y0 - 5)

\* The marker of f"\U0001F4AC {comment}": the speech balloon and a space.
Glyph == << "(speech balloon)", " " >>

Callout(page, comment_rect, text) ==
    InsertTextbox(Add(page, Drawn("draw_rect", comment_rect,
                                  Point(comment_rect.x0, comment_rect.y0),
                                  << >>, 0, "", LightYellow, LightYellow)),
                  comment_rect, text, 9, "helv", Black,
                  TextboxResult(comment_rect, text, 9))

\* content.get("comment", "").strip(), then the callout if it is non-empty.
WithComment(page, rect, comment) ==
    IF comment.kind = "null" THEN [exc |-> "AttributeError", page |-> page]
    ELSE IF comment.kind = "missing" \/ Strip(comment.text) = << >>
    THEN [exc |-> "none", page |-> page]
    ELSE [ exc |-> "none",
           page |-> Callout(page, CommentRect(rect), Glyph \o Strip(comment.text)) ]

PutAnnotated(doc, n, done) == [exc |-> done.exc, doc |-> WithPage(doc, n, done.page)]

\* Mutant: the rectangle is not validated.
BurnAnnotationAnyRect(doc, annot) ==
    IF annot.page_number < 0 \/ annot.page_number >= Len(doc.pages)
    THEN [exc |-> "none", doc |-> doc]
    ELSE PutAnnotated(doc, annot.page_number + 1,
                      WithComment(WithShape(doc.pages[annot.page_number + 1],
                                            RectOfBBox(annot.position),
                                            annot.annotation_type),
                                  RectOfBBox(annot.position), annot.content.comment))

\* Mutant: the page is taken as doc[page_num] without the validation.
BurnAnnotationAnyPage(doc, annot) ==
    IF annot.page_number >= Len(doc.pages)
    THEN [exc |-> "IndexError", doc |-> doc]
    ELSE IF IsEmptyRect(RectOfBBox(annot.position))
    THEN [exc |-> "none", doc |-> doc]
    ELSE PutAnnotated(doc, PageAt(doc, annot.page_number),
                      WithComment(WithShape(doc.pages[PageAt(doc, annot.page_number)],
                                            RectOfBBox(annot.position),
                                            annot.annotation_type),
                                  RectOfBBox(annot.position), annot.content.comment))

\* One pass of the loop over the annotations.
BurnAnnotation(doc, annot) ==
    IF annot.page_number < 0 \/ annot.page_number >= Len(doc.pages)
    THEN [exc |-> "none", doc |-> doc]
    ELSE IF IsEmptyRect(RectOfBBox(annot.position))
    THEN [exc |-> "none", doc |-> doc]
    ELSE PutAnnotated(doc, annot.page_number + 1,
                      WithComment(WithShape(doc.pages[annot.page_number + 1],
                                            RectOfBBox(annot.position),
                                            annot.annotation_type),
                                  RectOfBBox(annot.position), annot.content.comment))

RECURSIVE BurnAnnotations(_, _, _)
AfterAnnotation(annotations, i, step) ==
    IF step.exc # "none" THEN step
    ELSE BurnAnnotations(step.doc, annotations, i + 1)

BurnAnnotations(doc, annotations, i) ==
    IF i > Len(annotations) THEN [exc |-> "none", doc |-> doc]
    ELSE AfterAnnotation(annotations, i, BurnAnnotation(doc, annotations[i]))

\* doc.save, doc.close and the dictionary returned.
SaveAndClose(marked) ==
    IF marked.exc # "none"
    THEN [exc |-> marked.exc, handle |-> "open", trace |-> << >>, ret |-> << >>]
    ELSE [ exc |-> "none", handle |-> "closed", trace |-> << >>,
           ret |-> [success |-> TRUE, pdf_bytes |-> marked.doc] ]

AfterAnnotations(loop, watermark_text, text_fails) ==
    IF loop.exc # "none"
    THEN [exc |-> loop.exc, handle |-> "open", trace |-> << >>, ret |-> << >>]
    ELSE SaveAndClose(AddWatermark(loop.doc, watermark_text, text_fails))

\* The body of generate_annotated_pdf's try block.
AnnotateTry(pdf_bytes, annotations, watermark_text, text_fails) ==
    IF ~pdf_bytes.valid
    THEN [exc |-> "FileDataError", handle |-> "none", trace |-> << >>, ret |-> << >>]
    ELSE AfterAnnotations(BurnAnnotations(pdf_bytes, annotations, 1),
                          watermark_text, text_fails)

\* except Exception as e: return {"success": False, "error": str(e)}
ExceptAnnotate(t) ==
    IF t.exc # "none"
    THEN [ raised |-> "none", handle |-> t.handle, trace |-> t.trace,
           ret |-> [success |-> FALSE, error |-> t.exc] ]
    ELSE [raised |-> "none", handle |-> t.handle, trace |-> t.trace, ret |-> t.ret]

GenerateAnnotatedPdfRun(pdf_bytes, annotations, watermark_text, text_fails) ==
    ExceptAnnotate(AnnotateTry(pdf_bytes, annotations, watermark_text, text_fails))

\* The body of add_watermark_to_pdf's try block.
WatermarkTry(pdf_bytes, watermark_text, text_fails) ==
    IF ~pdf_bytes.valid
    THEN [exc |-> "FileDataError", handle |-> "none", trace |-> << >>, ret |-> << >>]
    ELSE SaveAndClose(AddWatermark(pdf_bytes, watermark_text, text_fails))

ExceptWatermark(t) ==
    IF t.exc # "none"
    THEN [ raised |-> "none", handle |-> t.handle, trace |-> t.trace,
           ret |-> [success |-> FALSE, error |-> t.exc] ]
    ELSE [raised |-> "none", handle |-> t.handle, trace |-> t.trace, ret |-> t.ret]

AddWatermarkToPdfRun(pdf_bytes, watermark_text, text_fails) ==
    ExceptWatermark(WatermarkTry(pdf_bytes, watermark_text, text_fails))

-----------------------------------------------------------------------------
(* The calls of the model *)

UuidStreams == {1, 2}
NoOracle == [page |-> 0, outcome |-> RaiseOutcome, rest |-> RaiseOutcome, uuid |-> 1]
NoResult == [pending |-> TRUE]

\* A response that names the person.
JaneObject ==
    [kind |-> "object", pairs |-> << [key |-> "names", entity |-> "Jane Doe"] >>,
     sparse |-> TRUE]

\* Every document of up to MaxTokens tokens, line breaks and page breaks.
TextStreams == SeqsUpTo(Tokens \cup {LineBreak, PageBreak}, MaxTokens)

\* Documents of several pages, a damaged page among them.
PagedStreams ==
    { << "Jane Doe" >>,
      << "Jane Doe", PageBreak, "Jane Doe", "jane@example.com" >>,
      << "jane@example.com", "+1 555-123-4567", PageBreak, "Jane Doe" >>,
      << "https://jane.dev", LineBreak, "github.com/jane", PageBreak,
         "https://jane.dev", "linkedin.com/in/jane" >>,
      << "Jane Doe", "jane@example.com", PageBreak, Damaged >>,
      << NestedUrl, PageBreak, "https://github.com/jane", "https://jane.dev" >>,
      << Damaged, PageBreak, "Jane Doe" >> }

NotStarted ==
    /\ pc = "start"
    /\ result = NoResult
    /\ raised = "none"
    /\ handle = "none"
    /\ trace = << >>
    /\ threads = << >>

PageIndexes(doc) == 0..(Len(doc.pages) - 1)

InitDetect ==
    /\ \/ \E s \in TextStreams, r \in {RaiseOutcome, JaneObject}, u \in UuidStreams :
            /\ call = [op |-> "detect", file |-> MakeDoc(s)]
            /\ llm = [page |-> 0, outcome |-> r, rest |-> r, uuid |-> u]
       \/ /\ call = [op |-> "detect", file |-> CorruptFile]
          /\ llm = NoOracle
       \/ \E s \in PagedStreams, oc \in Outcomes, r \in {RaiseOutcome, JaneObject},
             u \in UuidStreams :
            \E p \in PageIndexes(MakeDoc(s)) :
                /\ call = [op |-> "detect", file |-> MakeDoc(s)]
                /\ llm = [page |-> p, outcome |-> oc, rest |-> r, uuid |-> u]
    /\ NotStarted

\* Mutant: the document returned is written over the caller's bytes.
ReturnsInPlace(run) ==
    /\ result' = run.ret
    /\ raised' = run.raised
    /\ handle' = run.handle
    /\ trace' = run.trace
    /\ pc' = "done"
    /\ call' = IF "pdf_bytes" \in DOMAIN run.ret
               THEN [call EXCEPT !.pdf_bytes = run.ret.pdf_bytes]
               ELSE call
    /\ UNCHANGED <<llm, threads>>

\* The operation returns to its caller.
Returns(run) ==
    /\ result' = run.ret
    /\ raised' = run.raised
    /\ handle' = run.handle
    /\ trace' = run.trace
    /\ pc' = "done"
    /\ UNCHANGED <<call, llm, threads>>

DetectPiiWithCoordinates ==
    /\ pc = "start"
    /\ call.op = "detect"
    /\ Returns(DetectPiiWithCoordinatesRun(call.file, llm))

SpecDetect == InitDetect /\ [][DetectPiiWithCoordinates]_vars

BBox(x, y, width, height) == [x |-> x, y |-> y, width |-> width, height |-> height]

\* The rectangles of the replacement items: the address "jane@example.com"
\* at the top left, the digits inside "+1 555-123-4567" beside it, a box
\* lower and a box higher than a line, and an empty one.
EmailBox == BBox(0, 0, 96, 12)
DigitsBox == BBox(120, 0, 72, 12)
LowBox == BBox(0, 0, 96, 4)
HighBox == BBox(0, 0, 96, 28)
EmptyBox == BBox(0, 0, 0, 12)

Calibri == << "C", "a", "l", "i", "b", "r", "i" >>

Style(has_font_size, size) ==
    [ font_name |-> Calibri, has_font_size |-> has_font_size,
      font_size |-> size, color |-> 255, flags |-> 0 ]

Styles == {Style(FALSE, 0), Style(TRUE, 11), Style(TRUE, 12), Style(TRUE, 24)}

Replacement(page, bbox, replacement_text, style) ==
    [page |-> page, bbox |-> bbox, replacement_text |-> replacement_text, style |-> style]

Replacements ==
    { Replacement(0, b, t, Style(TRUE, 11)) :
          b \in {EmailBox, DigitsBox, EmptyBox}, t \in {<< >>, << " " >>} }
    \cup { Replacement(0, b, << "X" >>, st) :
               b \in {EmailBox, LowBox, HighBox}, st \in Styles }
    \cup { Replacement(0, EmailBox, << " ", "X", " " >>, Style(TRUE, 11)),
           Replacement(0, EmptyBox, << "X" >>, Style(TRUE, 11)) }
    \cup { Replacement(p, EmailBox, << >>, Style(TRUE, 11)) : p \in {-1, 1, 2} }

\* The "+1" before the digits, and a text longer than its box is wide.
PrefixBox == BBox(102, 0, 12, 12)
LongText == << "X", "X", "X", "X" >>

\* Lists of items on rectangles that do not meet, in both orders.
DisjointLists ==
    { << Replacement(0, PrefixBox, LongText, Style(TRUE, 11)),
         Replacement(0, DigitsBox, << >>, Style(TRUE, 11)) >>,
      << Replacement(0, DigitsBox, << >>, Style(TRUE, 11)),
         Replacement(0, PrefixBox, LongText, Style(TRUE, 11)) >> }

RedactStreams ==
    { << "jane@example.com", "+1 555-123-4567", LineBreak, "Jane Doe" >>,
      << "jane@example.com", PageBreak, "Jane Doe" >> }

InitRedact ==
    /\ \/ \E s \in RedactStreams, rs \in SeqsUpTo(Replacements, MaxItems),
             f \in BOOLEAN :
            call = [ op |-> "anonymize", pdf_bytes |-> MakeDoc(s),
                     replacements |-> rs, text_fails |-> f ]
       \/ \E s \in RedactStreams, rs \in DisjointLists, f \in BOOLEAN :
            call = [ op |-> "anonymize", pdf_bytes |-> MakeDoc(s),
                     replacements |-> rs, text_fails |-> f ]
       \/ \E rs \in SeqsUpTo(Replacements, 1) :
            call = [ op |-> "anonymize", pdf_bytes |-> CorruptFile,
                     replacements |-> rs, text_fails |-> FALSE ]
    /\ llm = NoOracle
    /\ NotStarted

GenerateAnonymizedPdf ==
    /\ pc = "start"
    /\ call.op = "anonymize"
    /\ Returns(GenerateAnonymizedPdfRun(call.pdf_bytes, call.replacements,
                                        call.text_fails))

SpecRedact == InitRedact /\ [][GenerateAnonymizedPdf]_vars

NegativeBox == BBox(10, 10, -5, 12)

Comment(kind, text) == [kind |-> kind, text |-> text]
NoComment == Comment("missing", << >>)
NullComment == Comment("null", << >>)
CheckDates == << "c", "h", "e", "c", "k", " ", "d", "a", "t", "e", "s" >>

Annotation(page_number, position, annotation_type, comment) ==
    [ page_number |-> page_number, position |-> position,
      annotation_type |-> annotation_type, content |-> [comment |-> comment] ]

Annotations ==
    { Annotation(0, EmailBox, ty, NoComment) :
          ty \in {"highlight", "area", "drawing", "note"} }
    \cup { Annotation(0, EmailBox, "highlight", c) :
               c \in { NullComment, Comment("str", << >>), Comment("str", << " " >>),
                       Comment("str", CheckDates) } }
    \cup { Annotation(p, EmailBox, "area", Comment("str", CheckDates)) :
               p \in {-1, 1, 2} }
    \cup { Annotation(0, b, "highlight", c) :
               b \in {EmptyBox, NegativeBox}, c \in {NoComment, NullComment} }

\* "Reviewed by x" and the default of add_watermark_to_pdf,
\* "Processed by cookedcareer.com".
WatermarkTexts ==
    { << "R", "e", "v", "i", "e", "w", "e", "d", " ", "b", "y", " ", "x" >>,
      << "P", "r", "o", "c", "e", "s", "s", "e", "d", " ", "b", "y", " ",
         "c", "o", "o", "k", "e", "d", "c", "a", "r", "e", "e", "r", ".",
         "c", "o", "m" >> }

BurnStreams ==
    { << "Jane Doe" >>,
      << "jane@example.com", PageBreak, "Jane Doe" >>,
      << "jane@example.com", PageBreak, Landscape, "Jane Doe", PageBreak >> }

InitBurn ==
    /\ \/ \E s \in BurnStreams, as \in SeqsUpTo(Annotations, MaxItems),
             w \in WatermarkTexts, f \in BOOLEAN :
            call = [ op |-> "annotate", pdf_bytes |-> MakeDoc(s), annotations |-> as,
                     watermark_text |-> w, text_fails |-> f ]
       \/ \E s \in BurnStreams, w \in WatermarkTexts, f \in BOOLEAN :
            call = [ op |-> "watermark", pdf_bytes |-> MakeDoc(s),
                     watermark_text |-> w, text_fails |-> f ]
       \/ \E as \in SeqsUpTo(Annotations, 1), w \in WatermarkTexts :
            call = [ op |-> "annotate", pdf_bytes |-> CorruptFile, annotations |-> as,
                     watermark_text |-> w, text_fails |-> FALSE ]
       \/ \E w \in WatermarkTexts :
            call = [ op |-> "watermark", pdf_bytes |-> CorruptFile,
                     watermark_text |-> w, text_fails |-> FALSE ]
    /\ llm = NoOracle
    /\ NotStarted

GenerateAnnotatedPdf ==
    /\ pc = "start"
    /\ call.op = "annotate"
    /\ Returns(GenerateAnnotatedPdfRun(call.pdf_bytes, call.annotations,
                                       call.watermark_text, call.text_fails))

AddWatermarkToPdf ==
    /\ pc = "start"
    /\ call.op = "watermark"
    /\ Returns(AddWatermarkToPdfRun(call.pdf_bytes, call.watermark_text,
                                    call.text_fails))

SpecBurn == InitBurn /\ [][GenerateAnnotatedPdf \/ AddWatermarkToPdf]_vars

\* The font names given to the classifier: the keywords of the three lists
\* as they are, in capitals, capitalised with a weight and capitalised in
\* pairs, the names of the examples, and the empty name.
Capitals ==
    { "A", "B", "C", "D", "E", "F", "G", "H", "I", "J", "K", "L", "M",
      "N", "O", "P", "Q", "R", "S", "T", "U", "V", "W", "X", "Y", "Z" }

UpperChar(c) ==
    IF \E u \in Capitals : LowerChar(u) = c
    THEN CHOOSE u \in Capitals : LowerChar(u) = c
    ELSE c

Upper(s) == [i \in DOMAIN s |-> UpperChar(s[i])]
Capitalised(s) == [i \in DOMAIN s |-> IF i = 1 THEN UpperChar(s[i]) ELSE s[i]]

Keywords == sans_serif \cup serif \cup monospace

CalibriBold == << "C", "a", "l", "i", "b", "r", "i", "-", "B", "o", "l", "d" >>
TimesNewRoman == << "T", "i", "m", "e", "s", " ", "N", "e", "w", " ", "R", "o", "m", "a", "n" >>
Consolas == << "C", "o", "n", "s", "o", "l", "a", "s" >>
UnknownFontXYZ == << "U", "n", "k", "n", "o", "w", "n", "F", "o", "n", "t", "X", "Y", "Z" >>

FontNames ==
    { << >>, CalibriBold, TimesNewRoman, Consolas, UnknownFontXYZ }
    \cup Keywords
    \cup { Upper(k) : k \in Keywords }
    \cup { Capitalised(k) \o << "-", "B", "o", "l", "d" >> : k \in Keywords }
    \cup { Capitalised(a) \o << " " >> \o Capitalised(b) : a, b \in Keywords }

InitFont ==
    /\ \E f \in FontNames : call = [op |-> "classify", font_name |-> f]
    /\ llm = NoOracle
    /\ NotStarted

\* Two calls of _map_to_builtin_font with the same name, one after the
\* other; result holds the values returned so far.
MapToBuiltinFontCall ==
    /\ pc \in {"start", "again"}
    /\ call.op = "classify"
    /\ result' = (IF pc = "start" THEN << >> ELSE result)
                     \o << MapToBuiltinFont(call.font_name) >>
    /\ pc' = IF pc = "start" THEN "again" ELSE "done"
    /\ UNCHANGED <<call, llm, raised, handle, trace, threads>>

SpecFont == InitFont /\ [][MapToBuiltinFontCall]_vars

-----------------------------------------------------------------------------
(* Calls in progress at the same time on the global service instances *)

\* The services hold no attribute: a call's state is the locals of its
\* frame: its arguments, the document it opened, its place in the loop,
\* what the loop has gathered, and the value it returns.
Frame(c, o) ==
    [ call |-> c, llm |-> o, pc |-> "start", doc |-> CorruptFile, i |-> 0,
      acc |-> << >>, handle |-> "none", result |-> NoResult ]

InputOf(c) == IF c.op = "detect" THEN c.file ELSE c.pdf_bytes

\* What the loop of the call runs over.
Items(c, doc) ==
    IF c.op = "detect" THEN doc.pages
    ELSE IF c.op = "anonymize" THEN c.replacements
    ELSE c.annotations

\* The except block of the call's operation.
Caught(th, e) ==
    [th EXCEPT
        !.pc = "done",
        !.result =
            IF th.call.op = "detect"
            THEN ExceptDetect([exc |-> e, handle |-> th.handle, ret |-> << >>]).ret
            ELSE IF th.call.op = "anonymize"
            THEN ExceptReturnError([exc |-> e, handle |-> th.handle,
                                    trace |-> << >>, ret |-> << >>]).ret
            ELSE ExceptAnnotate([exc |-> e, handle |-> th.handle,
                                 trace |-> << >>, ret |-> << >>]).ret]

\* doc = fitz.open(...)
Opened(th) ==
    IF ~InputOf(th.call).valid THEN Caught(th, "FileDataError")
    ELSE [th EXCEPT !.pc = "loop", !.doc = InputOf(th.call), !.i = 1,
                    !.handle = "open"]

\* Mutant: the document is looked up on the shared instance, where the
\* first call put its own.
WorkingDocShared(ths, t) == ths[1].doc

\* The local variable doc of call t.
WorkingDoc(ths, t) == ths[t].doc

UpTo(doc, n) == [doc EXCEPT !.pages = SubSeq(@, 1, n)]

StepRecord(r, acc) == [exc |-> r.exc, doc |-> r.doc, acc |-> acc]
PageRecord(r, doc) == [exc |-> r.exc, doc |-> doc, acc |-> r.detections]

\* One pass of the loop of the call, on the document doc.
IterationOf(th, doc) ==
    IF th.call.op = "detect"
    THEN PageRecord(DetectPages(UpTo(doc, th.i), th.llm, th.i, th.acc), doc)
    ELSE IF th.call.op = "anonymize"
    THEN StepRecord(ApplyReplacement(doc, th.call.replacements[th.i],
                                     th.call.text_fails), << >>)
    ELSE StepRecord(BurnAnnotation(doc, th.call.annotations[th.i]), << >>)

Iterated(th, step) ==
    IF step.exc # "none" THEN Caught(th, step.exc)
    ELSE [th EXCEPT !.doc = step.doc, !.acc = step.acc, !.i = @ + 1]

Closed(th, t) ==
    IF t.exc # "none" THEN Caught(th, t.exc)
    ELSE [th EXCEPT !.pc = "done", !.handle = t.handle, !.result = t.ret]

\* What follows the loop: the watermark, save, close and return.
Finished(th, doc) ==
    IF th.call.op = "detect"
    THEN Closed(th, AfterDetectLoop(doc, th.llm,
                                    [exc |-> "none", detections |-> th.acc]))
    ELSE IF th.call.op = "anonymize"
    THEN Closed(th, AfterReplacementLoop([exc |-> "none", doc |-> doc,
                                          trace |-> << >>]))
    ELSE Closed(th, AfterAnnotations([exc |-> "none", doc |-> doc],
                                     th.call.watermark_text, th.call.text_fails))

Threads == 1..MaxThreads

JaneOnTwoPages == << "Jane Doe", PageBreak, "Jane Doe", "jane@example.com" >>
EmailAndName == << "jane@example.com", PageBreak, "Jane Doe" >>

\* The calls that run at the same time.
ConcurrentCalls ==
    { Frame([op |-> "detect", file |-> MakeDoc(JaneOnTwoPages)],
            [page |-> 0, outcome |-> JaneObject, rest |-> JaneObject, uuid |-> 1]),
      Frame([op |-> "detect", file |-> MakeDoc(EmailAndName)],
            [page |-> 0, outcome |-> RaiseOutcome, rest |-> JaneObject, uuid |-> 2]),
      Frame([op |-> "anonymize", pdf_bytes |-> MakeDoc(EmailAndName),
             replacements |-> << Replacement(0, EmailBox, << >>, Style(TRUE, 11)),
                                 Replacement(1, EmailBox, << "X" >>, Style(TRUE, 11)) >>,
             text_fails |-> FALSE], NoOracle),
      Frame([op |-> "anonymize", pdf_bytes |-> MakeDoc(JaneOnTwoPages),
             replacements |-> << Replacement(0, EmailBox, << "X" >>, Style(FALSE, 0)),
                                 Replacement(2, EmailBox, << >>, Style(TRUE, 11)) >>,
             text_fails |-> FALSE], NoOracle),
      Frame([op |-> "anonymize", pdf_bytes |-> CorruptFile,
             replacements |-> << >>, text_fails |-> FALSE], NoOracle),
      Frame([op |-> "annotate", pdf_bytes |-> MakeDoc(EmailAndName),
             annotations |-> << Annotation(0, EmailBox, "highlight",
                                           Comment("str", CheckDates)),
                                Annotation(1, EmailBox, "area", NoComment) >>,
             watermark_text |-> CheckDates, text_fails |-> FALSE], NoOracle),
      Frame([op |-> "annotate", pdf_bytes |-> MakeDoc(JaneOnTwoPages),
             annotations |-> << Annotation(0, EmailBox, "highlight", NullComment) >>,
             watermark_text |-> CheckDates, text_fails |-> FALSE], NoOracle) }

InitConcurrent ==
    /\ call = [op |-> "concurrent"]
    /\ llm = NoOracle
    /\ pc = "start"
    /\ result = NoResult
    /\ raised = "none"
    /\ handle = "none"
    /\ trace = << >>
    /\ threads \in [Threads -> ConcurrentCalls]

ThreadOpens(t) ==
    /\ threads[t].pc = "start"
    /\ threads' = [threads EXCEPT ![t] = Opened(@)]
    /\ UNCHANGED <<call, llm, pc, result, raised, handle, trace>>

ThreadIterates(t) ==
    /\ threads[t].pc = "loop"
    /\ threads[t].i <= Len(Items(threads[t].call, WorkingDoc(threads, t)))
    /\ threads' = [threads EXCEPT
                      ![t] = Iterated(@, IterationOf(@, WorkingDoc(threads, t)))]
    /\ UNCHANGED <<call, llm, pc, result, raised, handle, trace>>

ThreadFinishes(t) ==
    /\ threads[t].pc = "loop"
    /\ threads[t].i > Len(Items(threads[t].call, WorkingDoc(threads, t)))
    /\ threads' = [threads EXCEPT ![t] = Finished(@, WorkingDoc(threads, t))]
    /\ UNCHANGED <<call, llm, pc, result, raised, handle, trace>>

NextConcurrent ==
    \E t \in Threads : ThreadOpens(t) \/ ThreadIterates(t) \/ ThreadFinishes(t)

SpecConcurrent == InitConcurrent /\ [][NextConcurrent]_vars

\* The calls of the style extractor: a page of up to MaxTokens tokens and
\* line breaks, or one that cannot be read, and a bbox on a span, across
\* two spans, on the second line, lower or higher than a line, empty, or
\* away from all text.
StylePages ==
    { MakePage(s) : s \in SeqsUpTo(Tokens \cup {LineBreak}, MaxTokens) }
    \cup { MakePage(<< "Jane Doe", Damaged >>) }

WideBox == BBox(0, 0, 200, 12)
SecondLineBox == BBox(0, 12, 48, 12)
StaleBox == BBox(300, 400, 40, 8)

StyleBoxes ==
    {EmailBox, DigitsBox, LowBox, HighBox, EmptyBox, WideBox, SecondLineBox, StaleBox}

InitStyle ==
    /\ \E p \in StylePages, b \in StyleBoxes :
          call = [op |-> "style", page |-> p, bbox |-> b]
    /\ llm = NoOracle
    /\ NotStarted

ExtractTextWithStyleCall ==
    /\ pc = "start"
    /\ call.op = "style"
    /\ Returns([ ret |-> ExtractTextWithStyle(call.page, call.bbox),
                 raised |-> "none", handle |-> "none", trace |-> << >> ])

SpecStyle == InitStyle /\ [][ExtractTextWithStyleCall]_vars

\* Every call of the four operations.
Init == InitDetect \/ InitRedact \/ InitBurn

Next ==
    \/ DetectPiiWithCoordinates
    \/ GenerateAnonymizedPdf
    \/ GenerateAnnotatedPdf
    \/ AddWatermarkToPdf

Spec == Init /\ [][Next]_vars


-----------------------------------------------------------------------------
(* Properties of detection *)

DetectDone == pc = "done" /\ call.op = "detect"

Readable(file) == file.valid /\ \A i \in DOMAIN file.pages : ~file.pages[i].damaged

RegexTypes == {"email", "phone", "linkedin", "github", "website"}
AiTypes == {"name", "company", "school", "address"}

OnPage(detections, p) == SelectSeq(detections, LAMBDA d : d.page = p)

\* A detection without its id, and a list of them.
Content(d) == [k \in DOMAIN d \ {"id"} |-> d[k]]
Contents(detections) == [i \in DOMAIN detections |-> Content(detections[i])]

AiFailed(p) == OutcomeFor(llm, p).kind # "object"

\* C6: when the collaborator call or the parsing of its response raises for
\* a page, that page contributes no AI detection, its regex detections are
\* all in the result, the pages after it are still processed, and the
\* detection returns success.
C6_CollaboratorFailureIsLocal ==
    (DetectDone /\ Readable(call.file)) =>
        /\ result.success
        /\ result.total_pages = Len(call.file.pages)
        /\ \A n \in DOMAIN call.file.pages :
              LET here == Contents(OnPage(result.detections, n - 1))
                  regex == DetectPiiRegex(call.file.pages[n], n - 1)
              IN  /\ SubSeq(here, 1, Len(regex)) = regex
                  /\ AiFailed(n - 1) => here = regex

C6_Witness ==
    /\ DetectDone
    /\ Len(call.file.pages) = 2
    /\ AiFailed(0)
    /\ ~AiFailed(1)
    /\ result.success
    /\ OnPage(result.detections, 0) # << >>
    /\ \E i \in DOMAIN result.detections :
          result.detections[i].page = 1 /\ result.detections[i].type = "name"

\* C7: a detection's confidence is fixed by its type: 1.0 for email, phone,
\* linkedin, github and website, 0.90 for name, 0.85 for company and school,
\* 0.80 for address; so every confidence lies in [0.0, 1.0].
C7_ConfidenceByType ==
    DetectDone =>
        \A i \in DOMAIN result.detections :
            LET d == result.detections[i]
            IN  /\ d.type \in RegexTypes => d.confidence = 100
                /\ d.type = "name" => d.confidence = 90
                /\ d.type \in {"company", "school"} => d.confidence = 85
                /\ d.type = "address" => d.confidence = 80
                /\ d.type \in RegexTypes \cup AiTypes
                /\ 0 <= d.confidence /\ d.confidence <= 100

C7_Witness ==
    /\ DetectDone
    /\ \E i, j, k \in DOMAIN result.detections :
          /\ result.detections[i].type = "email"
          /\ result.detections[j].type = "name"
          /\ result.detections[k].type = "address"

\* C8: detections are created once per physical occurrence: a regex-matched
\* string that stands at k places of a page gets exactly k detections there,
\* so no two regex detections of one run share type, page and bbox.
C8_OncePerOccurrence ==
    DetectDone =>
        \A i, j \in DOMAIN result.detections :
            LET a == result.detections[i]
                b == result.detections[j]
            IN  (i # j /\ a.type \in RegexTypes)
                    => ~(a.type = b.type /\ a.page = b.page /\ a.bbox = b.bbox)

\* C9: a page whose text holds exactly one email address and exactly one
\* phone number, in one of the three supported shapes, yields exactly one
\* detection of type email and exactly one of type phone, both with
\* confidence 1.0.
PhoneTokens == {"555-123-4567", "(555) 123-4567", "+1 555-123-4567"}

OneEmailOnePhone(file) ==
    /\ Readable(file)
    /\ Len(file.pages) = 1
    /\ Len(file.pages[1].spans) = 2
    /\ \E i, j \in 1..2 :
          /\ file.pages[1].spans[i].text = "jane@example.com"
          /\ file.pages[1].spans[j].text \in PhoneTokens

OfType(detections, t) == SelectSeq(detections, LAMBDA d : d.type = t)

C9_OneEmailOnePhone ==
    (DetectDone /\ OneEmailOnePhone(call.file)) =>
        /\ result.success
        /\ Len(OfType(result.detections, "email")) = 1
        /\ Len(OfType(result.detections, "phone")) = 1
        /\ \A i \in DOMAIN result.detections :
              result.detections[i].type \in {"email", "phone"}
                  => result.detections[i].confidence = 100

-----------------------------------------------------------------------------
(* Properties of the redaction / replacement engine *)

AnonymizeDone == pc = "done" /\ call.op = "anonymize"

RedactCalls == {"add_redact_annot", "apply_redactions"}
ReinsertCalls == {"draw_rect", "insert_textbox", "insert_text"}

IsHardRedact(r) == Strip(r.replacement_text) = << >>

\* C1: every replacement item takes exactly one of the two branches:
\* HardRedact (redaction annotation added and applied) if and only if its
\* replacement_text is empty after stripping, StyledReinsert (white cover and
\* text insertion) otherwise; never both, never neither.
C1_ExactlyOneBranch ==
    AnonymizeDone =>
        /\ Len(trace) <= Len(call.replacements)
        /\ result.success => Len(trace) = Len(call.replacements)
        /\ \A i \in DOMAIN trace :
              LET r == call.replacements[i]
                  calls == Range(trace[i])
              IN  /\ (r.page < Len(call.pdf_bytes.pages)) => trace[i] # << >>
                  /\ trace[i] # << >> =>
                        /\ IsHardRedact(r) <=> "add_redact_annot" \in calls
                        /\ ~IsHardRedact(r) <=> "draw_rect" \in calls
                        /\ calls \subseteq RedactCalls \/ calls \subseteq ReinsertCalls
                  /\ (result.success /\ IsHardRedact(r)) =>
                        trace[i] = << "add_redact_annot", "apply_redactions" >>
                  /\ (result.success /\ ~IsHardRedact(r)) =>
                        SubSeq(trace[i], 1, 2) = << "draw_rect", "insert_textbox" >>

C1_Witness ==
    /\ AnonymizeDone
    /\ result.success
    /\ Len(trace) = 2
    /\ call.replacements[1].replacement_text = << " " >>
    /\ trace[1] = << "add_redact_annot", "apply_redactions" >>
    /\ call.replacements[2].replacement_text = << " ", "X", " " >>
    /\ "draw_rect" \in Range(trace[2])

\* The characters item r writes: those of its text box and of its
\* point-anchored fallback.
WrittenBy(r, kind) ==
    Drawn(kind, RectOfBBox(r.bbox),
          Point(r.bbox.x, r.bbox.y + (r.bbox.height * 3) \div 4),
          Strip(r.replacement_text), FontSize(r.style, RectOfBBox(r.bbox)),
          "helv", NoColor, NoColor)

WritesInto(r, rect) ==
    \E kind \in {"insert_textbox", "insert_text"} :
        \E k \in 0..(Len(Strip(r.replacement_text)) - 1) :
            Intersects(DrawnCharRect(WrittenBy(r, kind), k), rect)

SamePage(doc, a, b) == PageAt(doc, a.page) = PageAt(doc, b.page)

LaterInsertInto(i) ==
    \E j \in (i + 1)..Len(call.replacements) :
        /\ ~IsHardRedact(call.replacements[j])
        /\ SamePage(call.pdf_bytes, call.replacements[i], call.replacements[j])
        /\ WritesInto(call.replacements[j], RectOfBBox(call.replacements[i].bbox))

\* C2: after a successful run, for every item whose replacement_text is
\* empty after stripping, the text inside the item's bbox has been removed
\* from its page: text extraction over the bbox returns nothing, unless a
\* later StyledReinsert item wrote text into that bbox.
C2_RedactedTextIsGone ==
    (AnonymizeDone /\ result.success) =>
        \A i \in DOMAIN call.replacements :
            LET r == call.replacements[i]
            IN  (IsHardRedact(r) /\ ~LaterInsertInto(i)) =>
                    TextIn(result.pdf_bytes.pages[PageAt(call.pdf_bytes, r.page)],
                           RectOfBBox(r.bbox)) = {}

C2_Witness ==
    /\ AnonymizeDone
    /\ result.success
    /\ Len(call.replacements) = 2
    /\ ~IsHardRedact(call.replacements[1])
    /\ call.replacements[1].bbox = EmailBox
    /\ IsHardRedact(call.replacements[2])
    /\ call.replacements[2].bbox = EmailBox
    /\ \E i \in DOMAIN result.pdf_bytes.pages[1].added :
          /\ IsText(result.pdf_bytes.pages[1].added[i])
          /\ result.pdf_bytes.pages[1].added[i].gone # {}
    /\ result.pdf_bytes.pages[1].spans[1].gone = 0..15
    /\ TextIn(call.pdf_bytes.pages[1], RectOfBBox(EmailBox)) # {}

TextObjects(doc) ==
    UNION { {<<n, i>> : i \in {j \in DOMAIN doc.pages[n].added :
                                   IsText(doc.pages[n].added[j])}} :
            n \in DOMAIN doc.pages }

\* C3 as claimed: the font size used to render a replacement text lies in
\* [6.0, 18.0] points, whether it comes from style.font_size or from the
\* height-derived estimate.
C3_FontSizeClamped ==
    (AnonymizeDone /\ result.success) =>
        \A t \in TextObjects(result.pdf_bytes) :
            /\ min_size <= result.pdf_bytes.pages[t[1]].added[t[2]].fontsize
            /\ result.pdf_bytes.pages[t[1]].added[t[2]].fontsize <= max_size

\* C3 as amended: a replacement text is rendered at style.font_size, as
\* given and unclamped, when it is set; when it is unset, at the estimate
\* 0.75 x bbox height clamped to [6.0, 18.0] points.
RenderedAt(o, n, r) ==
    /\ PageAt(call.pdf_bytes, r.page) = n
    /\ ~IsHardRedact(r)
    /\ RectOfBBox(r.bbox) = o.rect
    /\ Strip(r.replacement_text) = o.text
    /\ r.style.has_font_size => o.fontsize = r.style.font_size
    /\ ~r.style.has_font_size =>
          /\ 6 <= o.fontsize /\ o.fontsize <= 18
          /\ (r.bbox.height * 3) \div 4 \in 6..18 => o.fontsize = (r.bbox.height * 3) \div 4
          /\ (r.bbox.height * 3) \div 4 < 6 => o.fontsize = 6
          /\ (r.bbox.height * 3) \div 4 > 18 => o.fontsize = 18

C3_FontSizeUsed ==
    (AnonymizeDone /\ result.success) =>
        \A t \in TextObjects(result.pdf_bytes) :
            \E i \in DOMAIN call.replacements :
                RenderedAt(result.pdf_bytes.pages[t[1]].added[t[2]], t[1],
                           call.replacements[i])

C3_Witness ==
    /\ AnonymizeDone
    /\ result.success
    /\ Len(call.replacements) = 2
    /\ ~call.replacements[1].style.has_font_size
    /\ call.replacements[1].bbox = LowBox
    /\ call.replacements[2].style.font_size = 24
    /\ \E t, u \in TextObjects(result.pdf_bytes) :
          /\ result.pdf_bytes.pages[t[1]].added[t[2]].fontsize = 6
          /\ result.pdf_bytes.pages[u[1]].added[u[2]].fontsize = 24

-----------------------------------------------------------------------------
(* Properties of the operations' boundary *)

PublicOperations == {"detect", "anonymize", "annotate"}

Payload(op) == IF op = "detect" THEN "detections" ELSE "pdf_bytes"

\* C4: detect_pii_with_coordinates, generate_anonymized_pdf and
\* generate_annotated_pdf never let an exception reach the caller: for every
\* input, an unopenable document included, the call returns a result with
\* success true and its payload, or one with success false and an error
\* string.
C4_NeverRaises ==
    (pc = "done" /\ call.op \in PublicOperations) =>
        /\ raised = "none"
        /\ "success" \in DOMAIN result
        /\ \/ /\ result.success = TRUE
              /\ Payload(call.op) \in DOMAIN result
           \/ /\ result.success = FALSE
              /\ "error" \in DOMAIN result
              /\ result.error \in {"FileDataError", "IndexError", "ValueError",
                                   "AttributeError", "RuntimeError"}

C4_Witness ==
    /\ pc = "done"
    /\ call.op = "anonymize"
    /\ ~call.pdf_bytes.valid
    /\ raised = "none"
    /\ result = [success |-> FALSE, error |-> "FileDataError"]

\* C5: in each of the four operations a document handle that was opened is
\* closed before the operation returns, on the success path and on the path
\* where an exception after the open makes it return a failure result: no
\* handle is open after its call has returned.
C5_HandleClosedOnEveryExit ==
    pc = "done" => handle # "open"

-----------------------------------------------------------------------------
(* Properties of the annotation burner *)

AnnotateDone == pc = "done" /\ call.op = "annotate"

\* The stamps of text on a page: the indexes of its point-anchored texts
\* that read text.
Stamps(page, text) ==
    {i \in DOMAIN page.added :
        page.added[i].kind = "insert_text" /\ page.added[i].text = text}

Skipped(doc, annot) ==
    \/ annot.page_number < 0
    \/ annot.page_number >= Len(doc.pages)
    \/ IsEmptyRect(RectOfBBox(annot.position))

\* C10: whenever generate_annotated_pdf returns success, every page of the
\* document has received exactly one stamp of watermark_text, at
\* x = (page_width - text_width) / 2 and y = page_height - 20, whatever the
\* annotation list: empty, all skipped, or leaving pages without annotation.
C10_OneStampPerPage ==
    (AnnotateDone /\ result.success) =>
        /\ Len(result.pdf_bytes.pages) = Len(call.pdf_bytes.pages)
        /\ \A n \in DOMAIN result.pdf_bytes.pages :
              LET page == result.pdf_bytes.pages[n]
                  text_width == GetTextLength(call.watermark_text, "hebo", 10)
              IN  /\ Cardinality(Stamps(page, call.watermark_text)) = 1
                  /\ \A i \in Stamps(page, call.watermark_text) :
                        /\ 2 * page.added[i].at.x = page.width - text_width
                        /\ page.added[i].at.y = page.height - 20
                        /\ i = Len(page.added)

C10_Witness ==
    /\ AnnotateDone
    /\ result.success
    /\ Len(result.pdf_bytes.pages) = 3
    /\ Len(call.annotations) = 2
    /\ \A i \in DOMAIN call.annotations : Skipped(call.pdf_bytes, call.annotations[i])
    /\ Len(call.watermark_text) = 13
    /\ result.pdf_bytes.pages[2].width = 792
    /\ result.pdf_bytes.pages[2].added[1].at = Point(357, 592)
    /\ result.pdf_bytes.pages[1].added[1].at = Point(267, 772)

\* The annotations of the call that are drawn on page n (from 1): those
\* of a valid page and a well-formed rectangle.
DrawnOn(n) ==
    {i \in DOMAIN call.annotations :
        /\ ~Skipped(call.pdf_bytes, call.annotations[i])
        /\ call.annotations[i].page_number + 1 = n}

HasComment(annot) ==
    /\ annot.content.comment.kind = "str"
    /\ Strip(annot.content.comment.text) # << >>

Callouts(page) ==
    {i \in DOMAIN page.added :
        page.added[i].kind = "draw_rect" /\ page.added[i].fill = LightYellow}

Shapes(page) ==
    {i \in DOMAIN page.added :
        \/ page.added[i].kind = "add_highlight_annot"
        \/ page.added[i].kind = "draw_rect" /\ page.added[i].color = Red}

HasShape(annot) == annot.annotation_type \in {"highlight", "area", "drawing"}

\* C11: an annotation of a valid page and a well-formed rectangle gets a
\* comment callout if and only if its content.comment is present and
\* non-empty; one whose comment is absent (missing or null) gets its shape
\* and no callout, and does not make the burn fail.
C11_CalloutIffComment ==
    (AnnotateDone /\ call.pdf_bytes.valid /\ ~call.text_fails) =>
        /\ result.success
        /\ \A n \in DOMAIN result.pdf_bytes.pages :
              /\ Cardinality(Callouts(result.pdf_bytes.pages[n]))
                    = Cardinality({i \in DrawnOn(n) : HasComment(call.annotations[i])})
              /\ Cardinality(Shapes(result.pdf_bytes.pages[n]))
                    = Cardinality({i \in DrawnOn(n) : HasShape(call.annotations[i])})

\* What the burn gives for the list without the annotations of an empty or
\* invalid rectangle.
WellFormed(annot) == ~IsEmptyRect(RectOfBBox(annot.position))

WithoutIllFormed ==
    GenerateAnnotatedPdfRun(call.pdf_bytes, SelectSeq(call.annotations, WellFormed),
                            call.watermark_text, call.text_fails)

\* C12: an annotation whose rectangle is empty or invalid (zero or negative
\* width or height) is skipped silently: it gives no shape and no callout,
\* every other annotation of the list is drawn as without it, and it does
\* not keep the operation from returning success.
C12_IllFormedRectSkipped ==
    AnnotateDone =>
        /\ result = WithoutIllFormed.ret
        /\ (\A i \in DOMAIN call.annotations :
                ~WellFormed(call.annotations[i]) \/ HasComment(call.annotations[i])
                \/ call.annotations[i].content.comment.kind = "missing")
             => (result.success <=> (call.pdf_bytes.valid /\ ~call.text_fails))

C12_Witness ==
    /\ AnnotateDone
    /\ result.success
    /\ Len(call.annotations) = 2
    /\ call.annotations[1].position = NegativeBox
    /\ call.annotations[1].content.comment = NullComment
    /\ call.annotations[2].position = EmailBox
    /\ HasComment(call.annotations[2])
    /\ Cardinality(Callouts(result.pdf_bytes.pages[1])) = 1
    /\ Cardinality(Shapes(result.pdf_bytes.pages[1])) = 1

-----------------------------------------------------------------------------
(* Properties of the font classifier *)

ClassifyDone == pc = "done" /\ call.op = "classify"

\* C13: the font classifier is total and deterministic: for every name it
\* returns one of helv, tiro and cour, the same value on every call, and it
\* maps "Calibri-Bold" to helv, "Times New Roman" to tiro, "Consolas" to
\* cour and "UnknownFontXYZ" to helv.
C13_ClassifierTotal ==
    ClassifyDone =>
        /\ Len(result) = 2
        /\ result[1] \in {"helv", "tiro", "cour"}
        /\ result[2] = result[1]
        /\ call.font_name = CalibriBold => result[1] = "helv"
        /\ call.font_name = TimesNewRoman => result[1] = "tiro"
        /\ call.font_name = Consolas => result[1] = "cour"
        /\ call.font_name = UnknownFontXYZ => result[1] = "helv"

C13_Witness ==
    /\ ClassifyDone
    /\ call.font_name = TimesNewRoman
    /\ result = << "tiro", "tiro" >>

\* The keyword tables as the specification lists them.
ListedSans ==
    { << "a", "r", "i", "a", "l" >>,
      << "h", "e", "l", "v", "e", "t", "i", "c", "a" >>,
      << "c", "a", "l", "i", "b", "r", "i" >>,
      << "v", "e", "r", "d", "a", "n", "a" >>,
      << "t", "a", "h", "o", "m", "a" >>,
      << "s", "e", "g", "o", "e" >>,
      << "g", "i", "l", "l" >> }

ListedSerif ==
    { << "t", "i", "m", "e", "s" >>,
      << "g", "e", "o", "r", "g", "i", "a" >>,
      << "g", "a", "r", "a", "m", "o", "n", "d" >>,
      << "p", "a", "l", "a", "t", "i", "n", "o" >>,
      << "b", "a", "s", "k", "e", "r", "v", "i", "l", "l", "e" >>,
      << "c", "a", "m", "b", "r", "i", "a" >> }

ListedMono ==
    { << "c", "o", "u", "r", "i", "e", "r" >>,
      << "c", "o", "n", "s", "o", "l", "a", "s" >>,
      << "m", "o", "n", "a", "c", "o" >> }

\* The generic family words.
GenericSans == { << "s", "a", "n", "s" >> }
GenericSerif == { << "s", "e", "r", "i", "f" >> }
GenericMono == { << "m", "o", "n", "o", "s", "p", "a", "c", "e" >>,
                 << "m", "o", "n", "o" >> }

\* The reference classification over three tables: substring match without
\* regard to case, the tables tried in the order sans, serif, mono, the
\* first that matches winning, and sans when none matches.
Reference(sans, serifs, mono, name) ==
    IF \E k \in sans : Contains(Lower(name), k) THEN "helv"
    ELSE IF \E k \in serifs : Contains(Lower(name), k) THEN "tiro"
    ELSE IF \E k \in mono : Contains(Lower(name), k) THEN "cour"
    ELSE "helv"

\* C14 as claimed: for every font name the classifier's result is the
\* reference over the tables sans {arial, helvetica, calibri, verdana,
\* tahoma, segoe, gill}, serif {times, georgia, garamond, palatino,
\* baskerville, cambria}, mono {courier, consolas, monaco}.
C14_ReferenceListedTables ==
    ClassifyDone =>
        result[1] = Reference(ListedSans, ListedSerif, ListedMono, call.font_name)

\* C14 as amended: for every font name the classifier's result is the
\* reference over the listed tables extended by the generic family words:
\* sans with "sans", serif with "serif", mono with "monospace" and "mono".
C14_ReferenceFullTables ==
    ClassifyDone =>
        result[1] = Reference(ListedSans \cup GenericSans,
                              ListedSerif \cup GenericSerif,
                              ListedMono \cup GenericMono, call.font_name)

C14_Witness ==
    /\ ClassifyDone
    /\ call.font_name = << "S", "e", "r", "i", "f", " ", "C", "o", "u", "r", "i", "e", "r" >>
    /\ result[1] = "tiro"
    /\ Reference(ListedSans, ListedSerif, ListedMono, call.font_name) = "cour"

-----------------------------------------------------------------------------
(* Properties of the redaction engine: repetition, failure, frame *)

\* The extractable text of a page: every character of its content that no
\* redaction has removed.
PageText(page) ==
    UNION { { <<"span", i, k>> :
                k \in (0..(TokLen(page.spans[i].text) - 1)) \ page.spans[i].gone } :
            i \in DOMAIN page.spans }
    \cup UNION { { <<"added", i, k>> :
                     k \in {c \in 0..(Len(page.added[i].text) - 1) :
                               IsText(page.added[i]) /\ c \notin page.added[i].gone} } :
                 i \in DOMAIN page.added }

ExtractableText(doc) == [n \in DOMAIN doc.pages |-> PageText(doc.pages[n])]

LastItem == call.replacements[Len(call.replacements)]

\* The run of the same call with its last item given twice, and the run of
\* the last item alone on the output of the call.
LastItemTwice ==
    GenerateAnonymizedPdfRun(call.pdf_bytes, Append(call.replacements, LastItem),
                             call.text_fails)

LastItemOnOutput ==
    GenerateAnonymizedPdfRun(result.pdf_bytes, << LastItem >>, call.text_fails)

\* C15: applying a HardRedact item is idempotent: applying the same
\* empty-replacement item twice, twice in one list or by giving the output
\* of one run to a second run, succeeds and leaves the extractable text of
\* the pages equal to what it is after applying the item once.
C15_HardRedactIdempotent ==
    (AnonymizeDone /\ result.success /\ call.replacements # << >>
        /\ IsHardRedact(LastItem)) =>
        /\ LastItemTwice.ret.success
        /\ ExtractableText(LastItemTwice.ret.pdf_bytes)
              = ExtractableText(result.pdf_bytes)
        /\ LastItemOnOutput.ret.success
        /\ ExtractableText(LastItemOnOutput.ret.pdf_bytes)
              = ExtractableText(result.pdf_bytes)

C15_Witness ==
    /\ AnonymizeDone
    /\ result.success
    /\ Len(call.replacements) = 2
    /\ call.replacements[1] = call.replacements[2]
    /\ IsHardRedact(LastItem)
    /\ LastItem.bbox = DigitsBox
    /\ ExtractableText(result.pdf_bytes) # ExtractableText(call.pdf_bytes)
    /\ Len(result.pdf_bytes.pages[1].added) = 2

\* The items of the call that cannot be processed: a page index from the
\* page count on, or an empty rectangle, which both branches hand to a
\* library call that refuses it.
Unprocessable(r) ==
    \/ r.page >= Len(call.pdf_bytes.pages)
    \/ IsEmptyRect(RectOfBBox(r.bbox))

FirstUnprocessable ==
    CHOOSE i \in DOMAIN call.replacements :
        /\ Unprocessable(call.replacements[i])
        /\ \A j \in 1..(i - 1) : ~Unprocessable(call.replacements[j])

\* C16: when generate_anonymized_pdf fails while processing item i, it
\* returns success false with the error message and no pdf_bytes, although
\* the items before i were applied to the working document: no partly
\* changed document reaches the caller.
C16_FailureReturnsNoDocument ==
    (AnonymizeDone /\ call.pdf_bytes.valid
        /\ \E i \in DOMAIN call.replacements : Unprocessable(call.replacements[i])) =>
        /\ DOMAIN result = {"success", "error"}
        /\ result.success = FALSE
        /\ result.error \in {"IndexError", "ValueError"}
        /\ Len(trace) = FirstUnprocessable
        /\ \A j \in 1..(FirstUnprocessable - 1) : trace[j] # << >>

C16_Witness ==
    /\ AnonymizeDone
    /\ Len(call.replacements) = 2
    /\ IsHardRedact(call.replacements[1])
    /\ call.replacements[1].bbox = EmailBox
    /\ call.replacements[2].page = 2
    /\ trace = << << "add_redact_annot", "apply_redactions" >>, << >> >>
    /\ result = [success |-> FALSE, error |-> "IndexError"]

\* C17: generate_anonymized_pdf and generate_annotated_pdf leave the
\* caller's pdf_bytes as they were, on success and on failure: the changes
\* are made on a document opened from the bytes and the result is a new
\* buffer.
C17_InputBytesUnchanged ==
    [][call.op \in {"anonymize", "annotate"} =>
           /\ call'.op = call.op
           /\ call'.pdf_bytes = call.pdf_bytes]_vars

Pristine(doc) ==
    \A n \in DOMAIN doc.pages :
        /\ doc.pages[n].added = << >>
        /\ \A i \in DOMAIN doc.pages[n].spans : doc.pages[n].spans[i].gone = {}

C17_Witness ==
    /\ AnonymizeDone
    /\ result.success
    /\ Len(call.replacements) = 2
    /\ IsHardRedact(call.replacements[1])
    /\ ~IsHardRedact(call.replacements[2])
    /\ Pristine(call.pdf_bytes)
    /\ ~Pristine(result.pdf_bytes)
    /\ ExtractableText(result.pdf_bytes) # ExtractableText(call.pdf_bytes)

-----------------------------------------------------------------------------
(* Properties of detection: repetition and order *)

RegexOf(detections) == SelectSeq(detections, LAMBDA d : d.type \in RegexTypes)

\* The other runs of the detection on the same document: another stream of
\* ids, and the collaborator answering as in this run or otherwise.
OtherStream == CHOOSE u \in UuidStreams : u # llm.uuid

SecondRuns ==
    { [llm EXCEPT !.uuid = OtherStream] }
    \cup { [page |-> 0, outcome |-> oc, rest |-> RaiseOutcome, uuid |-> OtherStream] :
               oc \in {RaiseOutcome, JaneObject} }

Second(o) == DetectPiiWithCoordinatesRun(call.file, o).ret

SameAnswers(o) ==
    \A p \in PageIndexes(call.file) : OutcomeFor(o, p) = OutcomeFor(llm, p)

Ids(detections) == {detections[i].id : i \in DOMAIN detections}

\* C19: a second run of the detection on the same document gives the same
\* regex detections: as many, with the same sequence of type, text, page
\* and bbox; only the ids differ, and the AI detections differ only through
\* the entity strings the collaborator returned.
C19_RegexDetectionsRepeatable ==
    DetectDone =>
        \A o \in SecondRuns :
            LET second == Second(o)
            IN  /\ second.success = result.success
                /\ Contents(RegexOf(second.detections))
                      = Contents(RegexOf(result.detections))
                /\ Ids(second.detections) \cap Ids(result.detections) = {}
                /\ SameAnswers(o) =>
                      Contents(second.detections) = Contents(result.detections)

C19_Witness ==
    /\ DetectDone
    /\ result.success
    /\ Len(call.file.pages) = 2
    /\ Len(RegexOf(result.detections)) = 1
    /\ Len(result.detections) = 3
    /\ Len(Second([page |-> 0, outcome |-> RaiseOutcome, rest |-> RaiseOutcome,
                   uuid |-> OtherStream]).detections) = 1

\* The place of a regex detection's expression in the order email, phone
\* shape 1, 2, 3, linkedin, github, website, read off its type and text,
\* and the text the expression of each place matches.
\* The strings the expressions match in the model's documents, by
\* expression; a page of the model holds at most one of the strings of an
\* expression.
MatchedTexts ==
    << "jane@example.com", "555-123-4567", "(555) 123-4567", "+1 555-123-4567",
       "linkedin.com/in/jane", "github.com/jane", "github.com/r",
       "https://jane.dev", "http://jane.dev" >>

PatternNames ==
    << "email", "phone1", "phone2", "phone3", "linkedin", "github", "github",
       "website", "website" >>

PatternRank(d) == CHOOSE q \in DOMAIN MatchedTexts : MatchedTexts[q] = d.text

FromPattern(detections, p, q) ==
    SelectSeq(detections,
              LAMBDA d : d.type \in RegexTypes /\ d.page = p /\ PatternRank(d) = q)

ReadingOrder(rects) ==
    \A a, b \in DOMAIN rects :
        a < b => \/ rects[a].y0 < rects[b].y0
                 \/ rects[a].y0 = rects[b].y0 /\ rects[a].x0 < rects[b].x0

\* C20: the detection list is ordered: the detections of page p come
\* before those of page p+1; within a page the regex detections follow the
\* order email, phone shape 1, 2, 3, linkedin, github, website; within one
\* expression they follow the matches in text order, and for each match the
\* rectangles found for it in their order.
C20_DetectionOrder ==
    (DetectDone /\ result.success) =>
        /\ \A i, j \in DOMAIN result.detections :
              i < j => result.detections[i].page <= result.detections[j].page
        /\ \A i, j \in DOMAIN result.detections :
              (/\ i < j
               /\ result.detections[i].page = result.detections[j].page
               /\ result.detections[i].type \in RegexTypes
               /\ result.detections[j].type \in RegexTypes)
                  => PatternRank(result.detections[i]) <= PatternRank(result.detections[j])
        /\ \A n \in DOMAIN call.file.pages, q \in DOMAIN MatchedTexts :
              LET group == FromPattern(result.detections, n - 1, q)
                  rects == SearchFor(call.file.pages[n], MatchedTexts[q])
                  matches == PageMatches(PatternNames[q], call.file.pages[n])
              IN  /\ ReadingOrder(rects)
                  /\ Len(group) = Len(matches) * Len(rects)
                  /\ \A i \in DOMAIN group :
                        group[i].bbox = BBoxOfRect(rects[((i - 1) % Len(rects)) + 1])

C20_Witness ==
    /\ DetectDone
    /\ result.success
    /\ Len(call.file.pages) = 2
    /\ Len(result.detections) = 4
    /\ result.detections[1].type = "email"
    /\ result.detections[2].text = "555-123-4567"
    /\ result.detections[3].text = "+1 555-123-4567"
    /\ result.detections[3].page = 0
    /\ result.detections[4].type = "name"
    /\ result.detections[4].page = 1

-----------------------------------------------------------------------------
(* Properties of calls in progress at the same time *)

\* What the call of a frame returns when it runs alone.
Alone(th) ==
    IF th.call.op = "detect"
    THEN DetectPiiWithCoordinatesRun(th.call.file, th.llm).ret
    ELSE IF th.call.op = "anonymize"
    THEN GenerateAnonymizedPdfRun(th.call.pdf_bytes, th.call.replacements,
                                  th.call.text_fails).ret
    ELSE GenerateAnnotatedPdfRun(th.call.pdf_bytes, th.call.annotations,
                                 th.call.watermark_text, th.call.text_fails).ret

\* C18: calls of the detection, redaction and annotation operations that
\* are in progress at the same time on the global service instances do not
\* interfere: under every interleaving each call returns the result it
\* returns when run alone.
C18_ConcurrentCallsIndependent ==
    \A t \in DOMAIN threads :
        threads[t].pc = "done" => threads[t].result = Alone(threads[t])

C18_Witness ==
    /\ DOMAIN threads = Threads
    /\ threads[1].call.op = "anonymize"
    /\ threads[1].pc = "loop"
    /\ threads[1].i = 2
    /\ threads[2].call.op = "annotate"
    /\ threads[2].call.pdf_bytes = threads[1].call.pdf_bytes
    /\ threads[2].pc = "done"
    /\ threads[2].result.success
    /\ threads[2].result = Alone(threads[2])

-----------------------------------------------------------------------------
(* Properties of the redaction engine: order, fallback, frame *)

\* What a page holds: its text objects with the characters removed from
\* them, and the objects drawn on it, whatever the order they came in.
PageContent(page) == [spans |-> Range(page.spans), added |-> Range(page.added)]

DocContent(doc) == [n \in DOMAIN doc.pages |-> PageContent(doc.pages[n])]

PairwiseDisjoint(doc, rs) ==
    \A i, j \in DOMAIN rs :
        (i # j /\ SamePage(doc, rs[i], rs[j])) =>
            ~Intersects(RectOfBBox(rs[i].bbox), RectOfBBox(rs[j].bbox))

Reordered(rs, p) == [i \in DOMAIN rs |-> rs[p[i]]]

\* C21: replacement items are independent of each other: for a list of
\* items whose bboxes are pairwise disjoint, on the same or on different
\* pages, the content of the resulting document (removed text, white
\* covers, inserted text) is the same for every order of the list.
C21_OrderIndependent ==
    (AnonymizeDone /\ result.success
        /\ PairwiseDisjoint(call.pdf_bytes, call.replacements)) =>
        \A p \in Permutations(DOMAIN call.replacements) :
            /\ GenerateAnonymizedPdfRun(call.pdf_bytes,
                                        Reordered(call.replacements, p),
                                        call.text_fails).ret.success
            /\ DocContent(GenerateAnonymizedPdfRun(call.pdf_bytes,
                                                   Reordered(call.replacements, p),
                                                   call.text_fails).ret.pdf_bytes)
                  = DocContent(result.pdf_bytes)

\* The text objects that item r left on its page: those written on its
\* rectangle with its text.
TextsOf(doc, r) ==
    { j \in DOMAIN doc.pages[PageAt(doc, r.page)].added :
        /\ IsText(doc.pages[PageAt(doc, r.page)].added[j])
        /\ doc.pages[PageAt(doc, r.page)].added[j].rect = RectOfBBox(r.bbox)
        /\ doc.pages[PageAt(doc, r.page)].added[j].text = Strip(r.replacement_text) }

OnlyItemOn(i) ==
    \A j \in DOMAIN call.replacements :
        (j # i /\ SamePage(call.pdf_bytes, call.replacements[i], call.replacements[j]))
            => call.replacements[j].bbox # call.replacements[i].bbox

\* C22: for a StyledReinsert item the point-anchored fallback is executed
\* only when the box layout attempt placed nothing, so the replacement text
\* is written to the page at most once per item: by the box layout or by
\* the fallback, never by both.
C22_TextWrittenAtMostOnce ==
    (AnonymizeDone /\ result.success) =>
        \A i \in DOMAIN call.replacements :
            (~IsHardRedact(call.replacements[i]) /\ OnlyItemOn(i)) =>
                /\ Cardinality(TextsOf(result.pdf_bytes, call.replacements[i])) <= 1
                /\ "insert_text" \in Range(trace[i]) =>
                      \A j \in TextsOf(result.pdf_bytes, call.replacements[i]) :
                          result.pdf_bytes.pages[PageAt(call.pdf_bytes,
                                                        call.replacements[i].page)]
                              .added[j].kind = "insert_text"

\* The items whose only possible failure is the rendering of their text.
TextFailuresOnly ==
    \A i \in DOMAIN call.replacements :
        /\ call.replacements[i].page < Len(call.pdf_bytes.pages)
        /\ IsHardRedact(call.replacements[i]) =>
              ~IsEmptyRect(RectOfBBox(call.replacements[i].bbox))

BoxLayoutFails(r) ==
    \/ IsEmptyRect(RectOfBBox(r.bbox))
    \/ TextboxResult(RectOfBBox(r.bbox), Strip(r.replacement_text),
                     FontSize(r.style, RectOfBBox(r.bbox))) < 0

\* C23: a failure to render the replacement text of one StyledReinsert item
\* (the box layout attempt failing or raising, and the point fallback
\* failing) makes that item a no-op for its text and does not stop the
\* operation: all other items of the list are still applied and the
\* operation returns success with the output document.
C23_TextFailureIsLocal ==
    (AnonymizeDone /\ call.pdf_bytes.valid /\ TextFailuresOnly) =>
        /\ result.success
        /\ Len(trace) = Len(call.replacements)
        /\ \A i \in DOMAIN call.replacements :
              /\ trace[i] # << >>
              /\ (~IsHardRedact(call.replacements[i]) /\ call.text_fails
                     /\ BoxLayoutFails(call.replacements[i]) /\ OnlyItemOn(i)) =>
                    TextsOf(result.pdf_bytes, call.replacements[i]) = {}

-----------------------------------------------------------------------------
(* Properties of the entity resolver and the style extractor *)

AiOnPage(n) ==
    SelectSeq(OnPage(result.detections, n - 1), LAMBDA d : d.type \in AiTypes)

CategoryKeys == {Categories[i].key : i \in DOMAIN Categories}

\* How often the response of page n (from 1) names entity e under one of
\* the four categories.
Named(n, e) ==
    Cardinality({i \in DOMAIN OutcomeFor(llm, n - 1).pairs :
                    /\ OutcomeFor(llm, n - 1).pairs[i].entity = e
                    /\ OutcomeFor(llm, n - 1).pairs[i].key \in CategoryKeys})

Located(page, text) == {BBoxOfRect(r) : r \in Range(SearchFor(page, text))}

WithText(detections, e) == SelectSeq(detections, LAMBDA d : d.text = e)

\* C24: an entity string of the collaborator's response that locate does
\* not find on the page produces no detection and no error, and the other
\* entity strings of the response are still resolved: every AI-sourced
\* detection carries a bbox that locate returned for its text on its page.
C24_UnlocatedEntityDropped ==
    (DetectDone /\ Readable(call.file)) =>
        /\ result.success
        /\ \A n \in DOMAIN call.file.pages :
              /\ \A i \in DOMAIN AiOnPage(n) :
                    AiOnPage(n)[i].bbox
                        \in Located(call.file.pages[n], AiOnPage(n)[i].text)
              /\ ~AiFailed(n - 1) =>
                    \A e \in Entities :
                        Len(WithText(AiOnPage(n), e))
                            = Named(n, e) * Len(SearchFor(call.file.pages[n], e))

C24_Witness ==
    /\ DetectDone
    /\ result.success
    /\ Len(call.file.pages) = 1
    /\ llm.outcome.kind = "object"
    /\ EntitiesOf(llm.outcome.pairs) = << "Ghost Corp", "Jane Doe" >>
    /\ llm.outcome.pairs[1].key = "names"
    /\ llm.outcome.pairs[2].key = "names"
    /\ Len(AiOnPage(1)) = 1
    /\ AiOnPage(1)[1].text = "Jane Doe"
    /\ SearchFor(call.file.pages[1], "Ghost Corp") = << >>

\* The response with every category key present (an absent one holding the
\* empty list) and without the keys that are none of the four.
Complete(outcome) ==
    [outcome EXCEPT !.sparse = FALSE,
                    !.pairs = SelectSeq(@, LAMBDA pr : pr.key \in CategoryKeys)]

\* C25: for a response that is a JSON object, a category key that is
\* missing is treated as an empty list and unknown additional keys are
\* ignored: the entities of the categories that are present are resolved
\* into detections, none lost because another category is missing.
C25_MissingAndUnknownKeys ==
    (DetectDone /\ Readable(call.file)) =>
        \A n \in DOMAIN call.file.pages :
            ~AiFailed(n - 1) =>
                /\ Contents(AiOnPage(n))
                      = DetectPiiAiTry(call.file.pages[n], n - 1,
                                       Complete(OutcomeFor(llm, n - 1))).val
                /\ \A i \in DOMAIN Categories :
                      Len(OfType(AiOnPage(n), Categories[i].type))
                          = Len(FlatMap(LAMBDA e : SearchFor(call.file.pages[n], e),
                                        EntitiesOf(SelectSeq(
                                            OutcomeFor(llm, n - 1).pairs,
                                            LAMBDA pr : pr.key = Categories[i].key))))

C25_Witness ==
    /\ DetectDone
    /\ result.success
    /\ Len(call.file.pages) = 1
    /\ llm.outcome.kind = "object"
    /\ llm.outcome.sparse
    /\ Len(llm.outcome.pairs) = 2
    /\ llm.outcome.pairs[1].key = "notes"
    /\ llm.outcome.pairs[2].key = "companies"
    /\ ~HasKey(llm.outcome, "names")
    /\ Len(AiOnPage(1)) = 1
    /\ AiOnPage(1)[1].type = "company"

StyleDone == pc = "done" /\ call.op = "style"

\* The indexes of the spans of the call's page that the call's bbox meets.
Met ==
    { i \in DOMAIN call.page.spans :
        Intersects(RectOfBBox(call.bbox), SpanRect(call.page.spans[i])) }

FirstMet == CHOOSE i \in Met : \A j \in Met : i <= j

\* C26: the style extractor returns the font name, size, colour and flags
\* of the first span, in block, line and span order, whose rectangle
\* intersects the bbox; when no span intersects or the layout lookup
\* raises, it returns the fallback font_name "helv", font_size
\* 0.75 x bbox.height (unclamped), color 0, flags 0; it never raises.
C26_StyleOfFirstSpanOrFallback ==
    StyleDone =>
        /\ raised = "none"
        /\ (Met # {} /\ ~call.page.damaged) =>
              result = TokStyle(call.page.spans[FirstMet].text)
        /\ (Met = {} \/ call.page.damaged) =>
              result = [ font_name |-> "helv",
                         font_size |-> (call.bbox.height * 3) \div 4,
                         color |-> 0, flags |-> 0 ]

C26_Witness ==
    /\ StyleDone
    /\ call.bbox = WideBox
    /\ Len(call.page.spans) = 2
    /\ call.page.spans[1].text = "jane@example.com"
    /\ call.page.spans[2].text = "Jane Doe"
    /\ Met = {1, 2}
    /\ result = [font_name |-> "Calibri", font_size |-> 11, color |-> 0, flags |-> 0]
    /\ result # TokStyle("Jane Doe")

-----------------------------------------------------------------------------
(* Properties of the redaction engine: what a StyledReinsert item leaves *)

\* The HardRedact items of the call on page n (from 1) whose rectangle
\* meets rect.
RedactedBy(n, rect) ==
    { i \in DOMAIN call.replacements :
        /\ IsHardRedact(call.replacements[i])
        /\ PageAt(call.pdf_bytes, call.replacements[i].page) = n
        /\ Intersects(RectOfBBox(call.replacements[i].bbox), rect) }

AllStyledReinsert ==
    \A i \in DOMAIN call.replacements : ~IsHardRedact(call.replacements[i])

\* C28: a StyledReinsert item only adds content to its page, a white filled
\* rectangle and then the replacement text: it removes no text object, so
\* the original text under its bbox is still in the output's content, and
\* only HardRedact items remove text.
C28_StyledReinsertOnlyAdds ==
    (AnonymizeDone /\ result.success) =>
        \A n \in DOMAIN result.pdf_bytes.pages :
            /\ Len(result.pdf_bytes.pages[n].spans) = Len(call.pdf_bytes.pages[n].spans)
            /\ \A i \in DOMAIN result.pdf_bytes.pages[n].spans :
                  /\ [result.pdf_bytes.pages[n].spans[i] EXCEPT !.gone = {}]
                        = call.pdf_bytes.pages[n].spans[i]
                  /\ \A k \in result.pdf_bytes.pages[n].spans[i].gone :
                        RedactedBy(n, SpanCharRect(call.pdf_bytes.pages[n].spans[i], k))
                            # {}
            /\ AllStyledReinsert =>
                  /\ SubSeq(result.pdf_bytes.pages[n].added, 1,
                            Len(call.pdf_bytes.pages[n].added))
                        = call.pdf_bytes.pages[n].added
                  /\ \A j \in DOMAIN result.pdf_bytes.pages[n].added :
                        \/ IsText(result.pdf_bytes.pages[n].added[j])
                        \/ /\ result.pdf_bytes.pages[n].added[j].kind = "draw_rect"
                           /\ result.pdf_bytes.pages[n].added[j].fill = White
                  /\ PageText(call.pdf_bytes.pages[n])
                        \subseteq PageText(result.pdf_bytes.pages[n])

C28_Witness ==
    /\ AnonymizeDone
    /\ result.success
    /\ Len(call.replacements) = 1
    /\ ~IsHardRedact(call.replacements[1])
    /\ call.replacements[1].bbox = EmailBox
    /\ result.pdf_bytes.pages[1].added[1].kind = "draw_rect"
    /\ result.pdf_bytes.pages[1].added[1].rect = RectOfBBox(EmailBox)
    /\ result.pdf_bytes.pages[1].added[2].kind = "insert_textbox"
    /\ SpanCharsIn(result.pdf_bytes.pages[1], RectOfBBox(EmailBox))
          = SpanCharsIn(call.pdf_bytes.pages[1], RectOfBBox(EmailBox))
    /\ Cardinality(SpanCharsIn(result.pdf_bytes.pages[1], RectOfBBox(EmailBox))) = 16

-----------------------------------------------------------------------------
(* Properties of the website expression, out-of-range pages, and the       *)
(* detection result                                                        *)

\* The detections of one of the given types that lie on span sp of page p.
OnSpan(detections, types, p, sp) ==
    SelectSeq(detections,
              LAMBDA d : /\ d.type \in types
                         /\ d.page = p
                         /\ Intersects(RectOfBBox(d.bbox), SpanRect(sp)))

\* C27: no detection of type website has a text containing "linkedin" or
\* "github", so a URL that yields a linkedin or github detection never also
\* yields a website detection.
C27_WebsiteExcludesLinkedinGithub ==
    (DetectDone /\ result.success) =>
        /\ \A i \in DOMAIN result.detections :
              result.detections[i].type = "website" =>
                  ~MentionsLinkedinOrGithub(result.detections[i].text)
        /\ \A n \in DOMAIN call.file.pages :
              \A k \in DOMAIN call.file.pages[n].spans :
                  OnSpan(result.detections, {"linkedin", "github"}, n - 1,
                         call.file.pages[n].spans[k]) # << >>
                      => OnSpan(result.detections, {"website"}, n - 1,
                                call.file.pages[n].spans[k]) = << >>

InRange(annot) ==
    0 <= annot.page_number /\ annot.page_number < Len(call.pdf_bytes.pages)

WithoutOutOfRange ==
    GenerateAnnotatedPdfRun(call.pdf_bytes, SelectSeq(call.annotations, InRange),
                            call.watermark_text, call.text_fails)

\* C29: in generate_annotated_pdf an annotation whose page_number is
\* negative or not less than the page count is skipped without drawing
\* anything and without failing: the remaining annotations are drawn as
\* without it and the watermark is stamped on every page.
C29_OutOfRangePageSkipped ==
    AnnotateDone =>
        /\ result = WithoutOutOfRange.ret
        /\ (call.pdf_bytes.valid /\ ~call.text_fails
               /\ \A i \in DOMAIN call.annotations : ~InRange(call.annotations[i])) =>
              /\ result.success
              /\ \A n \in DOMAIN result.pdf_bytes.pages :
                    /\ Len(result.pdf_bytes.pages[n].added) = 1
                    /\ Stamps(result.pdf_bytes.pages[n], call.watermark_text) = {1}

C29_Witness ==
    /\ AnnotateDone
    /\ result.success
    /\ Len(call.pdf_bytes.pages) = 2
    /\ Len(call.annotations) = 2
    /\ call.annotations[1].page_number = 2
    /\ HasComment(call.annotations[1])
    /\ call.annotations[2].page_number = 1
    /\ Cardinality(Shapes(result.pdf_bytes.pages[2])) = 1
    /\ Cardinality(Callouts(result.pdf_bytes.pages[2])) = 1
    /\ Shapes(result.pdf_bytes.pages[1]) = {}
    /\ \A n \in 1..2 :
          Cardinality(Stamps(result.pdf_bytes.pages[n], call.watermark_text)) = 1

\* C30: detect_pii_with_coordinates never returns partial detections: a
\* result with success false has an empty detections list and total_pages
\* 0, even when the failure comes after detections of earlier pages were
\* collected, and a result with success true has total_pages equal to the
\* document's page count and every detection's page in [0, total_pages).
C30_NoPartialDetections ==
    DetectDone =>
        /\ result.success <=> Readable(call.file)
        /\ ~result.success =>
              /\ result.detections = << >>
              /\ result.total_pages = 0
              /\ "error" \in DOMAIN result
        /\ result.success =>
              /\ result.total_pages = Len(call.file.pages)
              /\ \A i \in DOMAIN result.detections :
                    /\ 0 <= result.detections[i].page
                    /\ result.detections[i].page < result.total_pages

C30_Witness ==
    /\ DetectDone
    /\ Len(call.file.pages) = 2
    /\ DetectPiiRegex(call.file.pages[1], 0) # << >>
    /\ ~call.file.pages[1].damaged
    /\ call.file.pages[2].damaged
    /\ result = [ success |-> FALSE, error |-> "RuntimeError",
                  detections |-> << >>, total_pages |-> 0 ]

=============================================================================
